---- MODULE Spec2Model ----
(***************************************************************************)
(* Backend adapters of CPMpy: CPM_ortools (cpmpy/solvers/ortools.py) and   *)
(* CPM_pumpkin (cpmpy/solvers/pumpkin.py) as one state machine.  A         *)
(* behaviour is the life of one adapter instance: the constructor, then    *)
(* any sequence of add / objective / solve / solveAll / get_core calls.    *)
(* The native engine is an external black box; it is modelled by its       *)
(* contract: a model is a list of variables with domains, a set of         *)
(* constraints, assumption literals and an objective, and a solve returns  *)
(* a status together with a solution of that model.                        *)
(***************************************************************************)
EXTENDS Integers, Sequences, FiniteSets, TLC

VARIABLES
    solver,            \* which adapter class this instance is
    user_vars,         \* SolverInterface.user_vars
    value,             \* cpm_var._value of every CPMpy variable
    varmap,            \* SolverInterface._varmap: CPMpy variable -> native handle
    native_vars,       \* native model: domains of the variables created, by index
    native_cons,       \* native model: constraints posted
    native_assum,      \* ort_model's assumption literals
    ort_objective,     \* ort_model's objective (Minimize/Maximize)
    params,            \* ort_solver.parameters
    assumption_dict,   \* CPM_ortools.assumption_dict / CPM_pumpkin.assump_map
    ort_status,        \* CPM_ortools.ort_status
    exitstatus,        \* cpm_status.exitstatus
    objective_value_,  \* SolverInterface.objective_value_
    pum_objective,     \* CPM_pumpkin._objective and objective_is_min
    pum_core,          \* CPM_pumpkin._pum_core
    user_cons,         \* CPM_pumpkin.user_cons: the constraints added so far
    prefix,            \* CPM_pumpkin.prefix: the path of the proof file
    native_core,       \* the engine's last answer: assumptions sufficient for infeasibility
    native_hints,      \* ort_model's solution hints: (variable, value) pairs
    csemap,            \* SolverInterface._csemap: sub-expression -> auxiliary variable
    aux_count,         \* number of auxiliary variables the transformations made
    last_solve,        \* the most recent solve call: its assumptions and outcome,
                       \* and whether the solve call before it returned true
    last,              \* the call that ended last: its arguments and outcome
    objective_calls,   \* the objective() calls made so far: expression and direction
    nops,              \* number of calls made so far
    util               \* the call of a function of cpmpy/solvers/utils.py in progress

vars == <<solver, user_vars, value, varmap, native_vars, native_cons, native_assum,
          ort_objective, params, assumption_dict, ort_status, exitstatus,
          objective_value_, pum_objective, pum_core, user_cons, prefix,
          native_core, native_hints, csemap, aux_count,
          last_solve, last, objective_calls, nops, util>>

-----------------------------------------------------------------------------
(* Bounds of the model *)

\* calls made on one adapter instance
MaxOps == 3
\* objective() calls on one adapter instance (each creates a variable on Pumpkin)
MaxObjectives == 2
\* length of the solver name given to SolverLookup.get, in pieces
MaxNameLen == 3
\* number of keys of the dict given to param_combinations
MaxKeys == 2

-----------------------------------------------------------------------------
(* Optional values: Python's None and a present value *)

None == [some |-> FALSE, v |-> 0]
Some(x) == [some |-> TRUE, v |-> x]

-----------------------------------------------------------------------------
(* Expression model: variables, negated views, the constraints handed to add *)

BoolVars == {"x", "y", "z"}
IntVars == {"a", "b", "c"}
\* the variables CPM_pumpkin.objective creates with intvar(*get_bounds(expr))
ObjVars == {"o1", "o2", "o3"}
AllVars == BoolVars \cup IntVars \cup ObjVars

is_bool(v) == v \in BoolVars

\* largest exponent of the power constraints posted
MaxExponent == 3

\* integer variables with domains of either sign, for the arithmetic
\* constraints handed to _post_constraint: intvar(lb, ub, name)
intvar ==
    [p |-> [lb |-> -1, ub |-> 1],
     q |-> [lb |-> 0, ub |-> 2],
     r |-> [lb |-> -8, ub |-> 8],
     m |-> [lb |-> -3, ub |-> 3],
     d |-> [lb |-> 1, ub |-> 2],
     e |-> [lb |-> -2, ub |-> -1],
     f |-> [lb |-> -2, ub |-> 2],
     g |-> [lb |-> 0, ub |-> 2]]

\* the bases of the power constraints and the divisors of the modulo constraints
Bases == {"p", "q"}
Divisors == {"d", "e", "f", "g"}

Min(S) == CHOOSE m \in S : \A n \in S : m <= n
Max(S) == CHOOSE m \in S : \A n \in S : m >= n

\* domain bounds of a CPMpy variable, by name: Booleans {0,1}, the declared
\* domain of an intvar, and [1,3] for the other integer variables
lb(v) == IF is_bool(v) THEN 0 ELSE IF v \in DOMAIN intvar THEN intvar[v].lb ELSE 1
ub(v) == IF is_bool(v) THEN 1 ELSE IF v \in DOMAIN intvar THEN intvar[v].ub ELSE 3

\* a variable reference; neg = TRUE is the NegBoolView of a Boolean variable
Var(v) == [v |-> v, neg |-> FALSE]
NegBoolView(v) == [v |-> v, neg |-> TRUE]

\* the intvar(lb, ub) that get_or_make_var makes: it carries its bounds
AuxVar(v, bounds) == [v |-> v, neg |-> FALSE, lb |-> bounds.lb, ub |-> bounds.ub]

\* get_bounds of a variable
get_bounds(x) ==
    IF "lb" \in DOMAIN x THEN [lb |-> x.lb, ub |-> x.ub]
    ELSE [lb |-> lb(x.v), ub |-> ub(x.v)]

\* get_bounds of -y and of x * y: the extreme products of the bounds
neg_bounds(y) == [lb |-> -y.ub, ub |-> -y.lb]
mul_bounds(x, y) ==
    [lb |-> Min({x.lb * y.lb, x.lb * y.ub, x.ub * y.lb, x.ub * y.ub}),
     ub |-> Max({x.lb * y.lb, x.lb * y.ub, x.ub * y.lb, x.ub * y.ub})]

\* a CPMpy constraint: kind, arguments, weights and right-hand side
Con(k, args) == [k |-> k, args |-> args, w |-> <<>>, rhs |-> 0]

COr == Con("or", <<Var("x"), Var("y")>>)
COr3 == Con("or", <<Var("x"), Var("y"), Var("z")>>)
CImp == Con("->", <<Var("x"), Var("y")>>)
CX == Con("boolvar", <<Var("x")>>)
CNotX == Con("boolvar", <<NegBoolView("x")>>)
CAllDiff == Con("alldifferent", <<Var("a"), Var("b"), Var("c")>>)
\* pow(x, y) == y: a power with a variable as exponent
CPowVar == Con("pow", <<Var("x"), Var("y"), Var("y")>>)

\* max(a, b) + c == 4 and max(a, b) + b == 4: the sum of a nested max and a
\* variable; args are the two arguments of max, then the other term
CMaxC == [k |-> "max+", args |-> <<Var("a"), Var("b"), Var("c")>>, w |-> <<>>, rhs |-> 4]
CMaxB == [k |-> "max+", args |-> <<Var("a"), Var("b"), Var("b")>>, w |-> <<>>, rhs |-> 4]

\* the auxiliary variables of the transformations, in the order they are made
AuxVarSeq == <<"i1", "i2">>

RECURSIVE SeqVars(_)
SeqVars(args) ==
    IF args = <<>> THEN {} ELSE {Head(args).v} \cup SeqVars(Tail(args))

\* get_variables(expr): the variables of a list of constraints
RECURSIVE get_variables(_)
get_variables(exprs) ==
    IF exprs = <<>> THEN {}
    ELSE SeqVars(Head(exprs).args) \cup get_variables(Tail(exprs))

-----------------------------------------------------------------------------
(* The native engine: variables, literals, constraints, solutions *)

\* BoolVar.Not().Index() of OR-Tools, BoolExpression.negate() of Pumpkin:
\* the negation of the literal with index h
Not(h) == -h - 1

\* value of a native literal or integer variable under assignment s
\* (s[i + 1] is the value of the variable with index i)
LitVal(s, h) == IF h >= 0 THEN s[h + 1] ELSE 1 - s[Not(h) + 1]

RECURSIVE Assignments(_)
Assignments(nv) ==
    IF nv = <<>> THEN {<<>>}
    ELSE LET n == Len(nv) IN
         {Append(s, v) : s \in Assignments(SubSeq(nv, 1, n - 1)),
                         v \in (nv[n].lb)..(nv[n].ub)}

RECURSIVE WSum(_, _, _)
WSum(s, lits, w) ==
    IF lits = <<>> THEN 0
    ELSE w[1] * LitVal(s, lits[1]) + WSum(s, Tail(lits), Tail(w))

\* a native constraint: kind, literals, weights, right-hand side
NativeCon(k, lits) == [k |-> k, lits |-> lits, w |-> <<>>, rhs |-> 0]

Abs(n) == IF n < 0 THEN -n ELSE n

\* the remainder of the division that truncates towards zero: it has the
\* sign of x, whatever the sign of y
TruncMod(x, y) == IF x < 0 THEN -(Abs(x) % Abs(y)) ELSE x % Abs(y)

NativeHolds(c, s) ==
    CASE c.k = "BoolOr" -> \E i \in 1..Len(c.lits) : LitVal(s, c.lits[i]) = 1
      [] c.k = "Implication" ->
            (LitVal(s, c.lits[1]) = 1) => (LitVal(s, c.lits[2]) = 1)
      [] c.k = "AllDifferent" ->
            \A i, j \in 1..Len(c.lits) :
                i # j => LitVal(s, c.lits[i]) # LitVal(s, c.lits[j])
      [] c.k = "Equals" -> WSum(s, c.lits, c.w) = c.rhs
      [] c.k = "Maximum" ->
            LET x == LitVal(s, c.lits[1])
                y == LitVal(s, c.lits[2])
            IN  LitVal(s, c.lits[3]) = IF x >= y THEN x ELSE y
      [] c.k = "MultiplicationEquality" ->
            LitVal(s, c.lits[1]) = LitVal(s, c.lits[2]) * LitVal(s, c.lits[3])
      [] c.k = "ModuloEquality" ->
            /\ LitVal(s, c.lits[3]) # 0
            /\ LitVal(s, c.lits[1]) = TruncMod(LitVal(s, c.lits[2]), LitVal(s, c.lits[3]))
      [] c.k = "LessThanOrEquals" -> WSum(s, c.lits, c.w) <= c.rhs
      [] c.k = "NotEquals" -> WSum(s, c.lits, c.w) # c.rhs
      [] OTHER -> TRUE

\* a Pumpkin Predicate(var, comparator, rhs)
Predicate(h, comp, rhs) == [var |-> h, comp |-> comp, rhs |-> rhs]

PredHolds(p, s) ==
    IF p.comp = ">=" THEN LitVal(s, p.var) >= p.rhs ELSE LitVal(s, p.var) <= p.rhs

\* the assignments the native model admits: every posted constraint holds and
\* every assumption literal (OR-Tools) or predicate (Pumpkin) is true
NativeSols(nv, cons, lits, preds) ==
    {s \in Assignments(nv) :
        /\ \A c \in cons : NativeHolds(c, s)
        /\ \A l \in lits : LitVal(s, l) = 1
        /\ \A p \in preds : PredHolds(p, s)}

\* the solutions that are optimal for objective variable h
Best(S, h, minimize) ==
    {s \in S : \A t \in S :
        IF minimize THEN LitVal(s, h) <= LitVal(t, h)
        ELSE LitVal(s, h) >= LitVal(t, h)}

-----------------------------------------------------------------------------
(* Adapter state as one record, so that handlers can call one another *)

Self ==
    [user_vars |-> user_vars, value |-> value, varmap |-> varmap,
     native_vars |-> native_vars, native_cons |-> native_cons,
     native_assum |-> native_assum, ort_objective |-> ort_objective,
     params |-> params, assumption_dict |-> assumption_dict,
     ort_status |-> ort_status, exitstatus |-> exitstatus,
     objective_value_ |-> objective_value_, pum_objective |-> pum_objective,
     pum_core |-> pum_core, user_cons |-> user_cons, prefix |-> prefix,
     native_core |-> native_core,
     native_hints |-> native_hints, csemap |-> csemap, aux_count |-> aux_count]

Becomes(st) ==
    /\ solver' = solver
    /\ user_vars' = st.user_vars
    /\ value' = st.value
    /\ varmap' = st.varmap
    /\ native_vars' = st.native_vars
    /\ native_cons' = st.native_cons
    /\ native_assum' = st.native_assum
    /\ ort_objective' = st.ort_objective
    /\ params' = st.params
    /\ assumption_dict' = st.assumption_dict
    /\ ort_status' = st.ort_status
    /\ exitstatus' = st.exitstatus
    /\ objective_value_' = st.objective_value_
    /\ pum_objective' = st.pum_objective
    /\ pum_core' = st.pum_core
    /\ native_core' = st.native_core
    /\ user_cons' = st.user_cons
    /\ prefix' = st.prefix
    /\ native_hints' = st.native_hints
    /\ csemap' = st.csemap
    /\ aux_count' = st.aux_count
    /\ util' = util

\* values of cpm_var._value
NoValue == [t |-> "none", v |-> 0]
IntValue(n) == [t |-> "int", v |-> n]
BoolValue(n) == [t |-> "bool", v |-> IF n # 0 THEN 1 ELSE 0]

\* a Boolean read back as the engine's integer
bool_as_int(val) == val

\* Python's bool(value)
bool(val) == BoolValue(val.v)

NoObjective == [some |-> FALSE, h |-> 0, minimize |-> TRUE]

\* the order in which list(self.user_vars) is walked
VarOrder == <<"x", "y", "z", "a", "b", "c", "o1", "o2", "o3">>
list(S) == SelectSeq(VarOrder, LAMBDA v : v \in S)

-----------------------------------------------------------------------------
(* solver_var: the variable cache *)

\* a solver_var that makes a native variable of its own for a negated view
solver_var_view_uncached(st, cpm_var) ==
    IF cpm_var.v \in DOMAIN st.varmap /\ ~cpm_var.neg THEN st
    ELSE [st EXCEPT
            !.varmap = (cpm_var.v :> Len(st.native_vars)) @@ @,
            !.native_vars = Append(@, get_bounds(cpm_var))]

\* state after solver_var(cpm_var): NewBoolVar / NewIntVar on first use;
\* a NegBoolView works on the variable inside the view
solver_var(st, cpm_var) ==
    IF cpm_var.v \in DOMAIN st.varmap THEN st
    ELSE [st EXCEPT
            !.varmap = (cpm_var.v :> Len(st.native_vars)) @@ @,
            !.native_vars = Append(@, get_bounds(cpm_var))]

\* what solver_var(cpm_var) returns once the variable is in the cache
handle(st, cpm_var) ==
    IF cpm_var.neg THEN Not(st.varmap[cpm_var.v]) ELSE st.varmap[cpm_var.v]

RECURSIVE solver_vars(_, _)
solver_vars(st, cpm_vars) ==
    IF cpm_vars = <<>> THEN st
    ELSE solver_vars(solver_var(st, Head(cpm_vars)), Tail(cpm_vars))

handles(st, cpm_vars) == [i \in 1..Len(cpm_vars) |-> handle(st, cpm_vars[i])]

\* solver_vars(list(self.user_vars)) at the start of solve
ensure_user_vars(st) ==
    solver_vars(st, [i \in 1..Len(list(st.user_vars)) |-> Var(list(st.user_vars)[i])])

-----------------------------------------------------------------------------
(* CPM_ortools: transform, _post_constraint, add, objective *)

\* a stage of transform() and whether it is given csemap=self._csemap
Stage(name, with_csemap) == [name |-> name, csemap |-> with_csemap]

ort_stages ==
    <<Stage("toplevel_list", FALSE),
      Stage("no_partial_functions", FALSE),
      Stage("decompose_in_tree", TRUE),
      Stage("flatten_constraint", TRUE),
      Stage("reify_rewrite", TRUE),
      Stage("only_numexpr_equality", TRUE),
      Stage("only_bv_reifies", TRUE),
      Stage("only_implies", TRUE)>>

\* get_or_make_var(sub, csemap): the auxiliary variable standing for the
\* sub-expression; with a CSE map the one recorded for it, if any
get_or_make_var(t, sub, with_csemap) ==
    IF with_csemap /\ \E p \in t.csemap : p[1] = sub
    THEN [t |-> t, var |-> (CHOOSE p \in t.csemap : p[1] = sub)[2]]
    ELSE LET aux == Var(AuxVarSeq[t.aux_count + 1]) IN
         [t |-> [t EXCEPT !.aux_count = @ + 1,
                          !.csemap = IF with_csemap THEN @ \cup {<<sub, aux>>} ELSE @],
          var |-> aux]

\* flatten_constraint: the nested max of max(a, b) + c == r is replaced by an
\* auxiliary variable iv with max(a, b) == iv; flat constraints stay
RECURSIVE flatten_constraint(_, _, _)
flatten_constraint(t, cons, with_csemap) ==
    IF cons = <<>> THEN [t EXCEPT !.cons = <<>>]
    ELSE LET con == Head(cons) IN
         IF con.k = "max+"
         THEN LET g == get_or_make_var(t, <<"max", SubSeq(con.args, 1, 2)>>, with_csemap)
                  rest == flatten_constraint(g.t, Tail(cons), with_csemap)
              IN  [rest EXCEPT !.cons =
                      <<Con("max==", <<con.args[1], con.args[2], g.var>>),
                        [k |-> "sum==", args |-> <<g.var, con.args[3]>>,
                         w |-> <<>>, rhs |-> con.rhs]>> \o @]
         ELSE LET rest == flatten_constraint(t, Tail(cons), with_csemap) IN
              [rest EXCEPT !.cons = <<con>> \o @]

\* canonical_comparison brings the variables of a comparison to the left:
\* x == o becomes 1*x + -1*o == 0
canonical_comparison(cons) ==
    [i \in 1..Len(cons) |->
        IF cons[i].k = "=="
        THEN [k |-> "wsum==", args |-> cons[i].args, w |-> <<1, -1>>, rhs |-> 0]
        ELSE cons[i]]

\* one stage applied; the stages not named here return the constraints of this
\* model, which are flat primitives, as they are
apply_stage(stage, t) ==
    LET t1 == [t EXCEPT !.trace = Append(@, stage.name)] IN
    CASE stage.name = "flatten_constraint" -> flatten_constraint(t1, t1.cons, stage.csemap)
      [] stage.name = "canonical_comparison" ->
            [t1 EXCEPT !.cons = canonical_comparison(@)]
      [] OTHER -> t1

RECURSIVE run_stages(_, _)
run_stages(stages, t) ==
    IF stages = <<>> THEN t ELSE run_stages(Tail(stages), apply_stage(Head(stages), t))

\* transform(cpm_expr): the transformed constraints, the CSE map and the
\* auxiliary variables afterwards, and the stages run
Transforming(st, cpm_expr) ==
    [cons |-> cpm_expr, csemap |-> st.csemap, aux_count |-> st.aux_count, trace |-> <<>>]

Transformed(st, t) == [st EXCEPT !.csemap = t.csemap, !.aux_count = t.aux_count]

ort_transform(st, cpm_expr) == run_stages(ort_stages, Transforming(st, cpm_expr))

\* a constant where a variable can stand: the 1 that new_lhs starts from
Const(n) == [v |-> "", neg |-> FALSE, const |-> n]
is_num(x) == "const" \in DOMAIN x

\* the native model with one more constraint over the variables cpm_vars
AddNative(st, k, cpm_vars, w, rhs) ==
    [st EXCEPT !.native_cons =
        @ \cup {[k |-> k, lits |-> handles(st, cpm_vars), w |-> w, rhs |-> rhs]}]

Posted(st, args, ncon_kind) ==
    [st |-> AddNative(solver_vars(st, args), ncon_kind, args, <<>>, 0), err |-> ""]

\* the auxiliary variables standing for -y and for b * x
neg_var(y) == AuxVar("-" \o y.v, neg_bounds(get_bounds(y)))
mul_var(b, x) == AuxVar(b.v \o "*" \o x.v, mul_bounds(get_bounds(b), get_bounds(x)))

\* get_or_make_var(expr, csemap=self._csemap): the auxiliary variable the CSE
\* map has for sub, or else aux, recorded in the map, with the constraint
\* link that defines it
made_var(st, sub, aux, link) ==
    IF \E c \in st.csemap : c[1] = sub
    THEN [st |-> st, var |-> (CHOOSE c \in st.csemap : c[1] = sub)[2], cons |-> <<>>]
    ELSE [st |-> [st EXCEPT !.csemap = @ \cup {<<sub, aux>>}, !.aux_count = @ + 1],
          var |-> aux, cons |-> <<link>>]

\* get_or_make_var as _post_constraint calls it, for -y and for b * new_lhs
post_get_or_make_var(st, op, args) ==
    IF op = "neg"
    THEN made_var(st, <<op, args>>, neg_var(args[1]),
                  [k |-> "wsum==var", args |-> <<args[1], neg_var(args[1])>>,
                   w |-> <<-1>>, rhs |-> 0])
    ELSE made_var(st, <<op, args>>, mul_var(args[1], args[2]),
                  Con("mul==", <<args[1], args[2], mul_var(args[1], args[2])>>))

\* ortrhs = self.solver_var(rhs) comes first, then the variables of the
\* left-hand side
ort_vars(st, lhs, rhs) == solver_vars(solver_var(st, rhs), lhs)

\* the arithmetic comparisons with a variable on the right
ort_post_arith(st, con) ==
    IF con.k = "mul=="
    THEN \* AddMultiplicationEquality(ortrhs, self.solver_vars(lhs.args))
         AddNative(ort_vars(st, SubSeq(con.args, 1, 2), con.args[3]),
                   "MultiplicationEquality",
                   <<con.args[3], con.args[1], con.args[2]>>, <<>>, 0)
    ELSE \* Add(eval_comparison("==", self._make_numexpr(lhs), ortrhs))
         AddNative(ort_vars(st, SubSeq(con.args, 1, Len(con.args) - 1),
                            con.args[Len(con.args)]),
                   "Equals", con.args, con.w \o <<-1>>, 0)

\* `self += link` inside _post_constraint: add() registers the variables of
\* the constraints as user variables and posts them, flat as they are
RECURSIVE add_link(_, _)
add_link(st, cons) ==
    IF cons = <<>> THEN st
    ELSE add_link(ort_post_arith([st EXCEPT !.user_vars = @ \cup SeqVars(Head(cons).args)],
                                 Head(cons)),
                  Tail(cons))

\* the loop `for exp in range(n)` of the power constraint: exp iterations
\* are still to run; new_lhs is 1 at the start, and b * 1 is b
RECURSIVE pow_chain(_, _, _, _)
RECURSIVE pow_step(_, _, _)
pow_step(g, b, exp) == pow_chain(add_link(g.st, g.cons), b, g.var, exp)

pow_chain(st, b, new_lhs, exp) ==
    IF exp = 0 THEN [st |-> st, new_lhs |-> new_lhs]
    ELSE IF is_num(new_lhs) THEN pow_chain(st, b, b, exp - 1)
    ELSE pow_step(post_get_or_make_var(st, "mul", <<b, new_lhs>>), b, exp - 1)

\* Add(eval_comparison("==", self.solver_var(new_lhs), ortrhs)) after the loop
pow_equality(c, r) ==
    IF is_num(c.new_lhs)
    THEN AddNative(c.st, "Equals", <<r>>, <<1>>, c.new_lhs.const)
    ELSE AddNative(solver_var(c.st, c.new_lhs), "Equals", <<c.new_lhs, r>>, <<1, -1>>, 0)

\* a power constraint that posts b * b == r whatever the exponent
ort_post_pow_square(st, con) ==
    AddNative(solver_var(st, con.args[1]), "MultiplicationEquality",
              <<con.args[2], con.args[1], con.args[1]>>, <<>>, 0)

\* pow(b, n) == r with a constant n; st has ortrhs already
ort_post_pow(st, con) ==
    IF con.n = 2
    THEN AddNative(solver_var(st, con.args[1]), "MultiplicationEquality",
                   <<con.args[2], con.args[1], con.args[1]>>, <<>>, 0)
    ELSE pow_equality(pow_chain(st, con.args[1], Const(1), con.n), con.args[2])

\* AddModuloEquality(ortrhs, *self.solver_vars([x, y])) with y the divisor g
\* stands for
mod_equality(g, con) ==
    AddNative(solver_vars(add_link(g.st, g.cons), <<con.args[1], g.var>>),
              "ModuloEquality", <<con.args[3], con.args[1], g.var>>, <<>>, 0)

\* x mod y == r; st has ortrhs already
ort_post_mod(st, con) ==
    IF get_bounds(con.args[2]).lb <= 0
    THEN mod_equality(post_get_or_make_var(st, "neg", <<con.args[2]>>), con)
    ELSE mod_equality([st |-> st, var |-> con.args[2], cons |-> <<>>], con)

\* the state after _post_constraint(cpm_expr, reifiable) and the error it
\* raised, if any, for the expressions other than bv -> boolexpr; no branch
\* reads reifiable
ort_post_primitive(st, con, reifiable) ==
    CASE con.k = "or" -> Posted(st, con.args, "BoolOr")
      [] con.k = "->" -> Posted(st, con.args, "Implication")
      [] con.k = "boolvar" -> Posted(st, con.args, "BoolOr")
      [] con.k = "alldifferent" -> Posted(st, con.args, "AllDifferent")
      [] con.k = "max==" ->
            \* ortrhs = self.solver_var(rhs), then AddMaxEquality(ortrhs, args)
            [st |-> AddNative(ort_vars(st, SubSeq(con.args, 1, 2), con.args[3]),
                              "Maximum", con.args, <<>>, 0),
             err |-> ""]
      [] con.k = "sum==" ->
            \* ortrhs is the constant, ortlhs = LinearExpr.sum(solver_vars(args))
            [st |-> AddNative(solver_vars(st, con.args), "Equals", con.args,
                              [i \in 1..Len(con.args) |-> 1], con.rhs),
             err |-> ""]
      [] con.k \in {"mul==", "wsum==var"} -> [st |-> ort_post_arith(st, con), err |-> ""]
      [] con.k = "mod==" ->
            [st |-> ort_post_mod(solver_var(st, con.args[3]), con), err |-> ""]
      [] con.k = "pow" ->
            \* ortrhs = self.solver_var(rhs) comes first, then the exponent check
            IF "n" \notin DOMAIN con
            THEN [st |-> solver_var(st, con.args[3]), err |-> "NotSupportedError"]
            ELSE [st |-> ort_post_pow(solver_var(st, con.args[2]), con), err |-> ""]
      [] OTHER -> [st |-> st, err |-> "NotImplementedError"]

\* Constraint.OnlyEnforceIf(lhs) on the constraint that r, the outcome of
\* posting the consequent from state before, has returned
OnlyEnforceIf(before, r, lhs) ==
    IF r.err # "" THEN r
    ELSE [st |-> [r.st EXCEPT !.native_cons =
                    before.native_cons \cup
                    {[k |-> c.k, lits |-> c.lits, w |-> c.w, rhs |-> c.rhs,
                      enforce |-> lhs] : c \in r.st.native_cons \ before.native_cons}],
          err |-> ""]

\* bv -> boolexpr: lhs = self.solver_var(bv), then
\* self._post_constraint(boolexpr, reifiable=True).OnlyEnforceIf(lhs);
\* st has the variable of bv
ort_post_reified(st, con) ==
    OnlyEnforceIf(st, ort_post_primitive(st, con.sub, TRUE), handle(st, con.args[1]))

\* the state after _post_constraint(cpm_expr, reifiable) and the error it
\* raised, if any
ort_post_constraint(st, con, reifiable) ==
    IF con.k = "->" /\ "sub" \in DOMAIN con
    THEN ort_post_reified(solver_var(st, con.args[1]), con)
    ELSE ort_post_primitive(st, con, reifiable)

RECURSIVE ort_post_all(_, _)
\* the loop goes on after the outcome r unless the call raised
ort_post_rest(r, cons) == IF r.err # "" THEN r ELSE ort_post_all(r.st, cons)

ort_post_all(st, cons) ==
    IF cons = <<>> THEN [st |-> st, err |-> ""]
    ELSE ort_post_rest(ort_post_constraint(st, Head(cons), FALSE), Tail(cons))

\* the loop of add over the constraints t that transform returned
ort_post_transformed(st, t) ==
    [stages |-> t.trace] @@ ort_post_all(Transformed(st, t), t.cons)

\* the user variables registered in the outcome r of an add that succeeded
collected_on_success(r, cpm_expr) ==
    IF r.err = "" THEN [r EXCEPT !.st.user_vars = @ \cup get_variables(cpm_expr)] ELSE r

\* an add that registers the user variables once everything is posted
ort_add_vars_on_success(st, cpm_expr) ==
    collected_on_success(ort_post_transformed(st, ort_transform(st, cpm_expr)), cpm_expr)

\* get_variables(cpm_expr, collect=self.user_vars)
collect(st, cpm_expr) == [st EXCEPT !.user_vars = @ \cup get_variables(cpm_expr)]

ort_add(st, cpm_expr) ==
    ort_post_transformed(collect(st, cpm_expr), ort_transform(st, cpm_expr))

\* an objective() that keeps the objective an earlier call has set
ort_objective_first(st, expr, minimize) ==
    LET st1 == solver_var([st EXCEPT !.user_vars = @ \cup {expr.v}], expr) IN
    IF st.ort_objective.some THEN st1
    ELSE [st1 EXCEPT !.ort_objective =
            [some |-> TRUE, h |-> handle(st1, expr), minimize |-> minimize]]

\* objective(expr, minimize) for an expression that is a variable:
\* flatten_objective returns it with no constraints
ort_objective_call(st, expr, minimize) ==
    LET st1 == ort_add(st, <<>>).st
        st2 == [st1 EXCEPT !.user_vars = @ \cup {expr.v}]
        st3 == solver_var(st2, expr)
    IN  [st3 EXCEPT !.ort_objective =
            [some |-> TRUE, h |-> handle(st3, expr), minimize |-> minimize]]

has_objective_ort(st) == st.ort_objective.some

-----------------------------------------------------------------------------
(* OrtSolutionCounter / OrtSolutionPrinter: the solution callback *)

NoneSeq == [some |-> FALSE, v |-> <<>>]

NoCallback == [present |-> FALSE, count |-> 0, limit |-> None, stopped |-> FALSE]

\* OrtSolutionPrinter(solver, display=None, solution_limit=limit)
OrtSolutionPrinter(limit) ==
    [present |-> TRUE, count |-> 0, limit |-> limit, stopped |-> FALSE]

\* a callback that overrides the counter's without calling it
on_solution_callback_uncounted(cb) == cb

\* a callback that stops the search one solution after the limit
on_solution_callback_late(cb) ==
    LET n == cb.count + 1 IN
    [cb EXCEPT !.count = n,
               !.stopped = @ \/ (cb.limit.some /\ n = cb.limit.v + 1)]

\* on_solution_callback: count the solution, then StopSearch() at the limit
on_solution_callback(cb) ==
    LET n == cb.count + 1 IN
    [cb EXCEPT !.count = n,
               !.stopped = @ \/ (cb.limit.some /\ n = cb.limit.v)]

solution_count(cb) == cb.count

\* the native search calling back on each of up to n solutions it finds,
\* until the callback stops it; calls counts the invocations
RECURSIVE Enumerate(_, _, _)
Enumerate(cb, calls, n) ==
    IF n = 0 \/ cb.stopped THEN [cb |-> cb, calls |-> calls]
    ELSE Enumerate(on_solution_callback(cb), calls + 1, n - 1)

-----------------------------------------------------------------------------
(* ort_solver.Solve(ort_model, solution_callback): what the engine can answer *)

OrtOut(status, sol, cb, calls, core) ==
    [status |-> status, sol |-> sol, cb |-> cb, calls |-> calls, core |-> core]

OrtOutcomes(st, cb) ==
    LET S == NativeSols(st.native_vars, st.native_cons, st.native_assum, {})
        limited == st.params.max_time_in_seconds.some
        \* SufficientAssumptionsForInfeasibility: assumptions that are
        \* infeasible together with the constraints
        Cores == {K \in SUBSET st.native_assum :
                     NativeSols(st.native_vars, st.native_cons, K, {}) = {}}
        GaveUp == IF limited THEN {OrtOut("UNKNOWN", <<>>, cb, 0, {})} ELSE {}
    IN  IF S = {} THEN {OrtOut("INFEASIBLE", <<>>, cb, 0, K) : K \in Cores} \cup GaveUp
        ELSE IF cb.present THEN
            \* enumeration: the callback runs on every solution found, until
            \* it stops the search, the time limit hits, or none is left
            LET Found == IF limited THEN 0..Cardinality(S) ELSE {Cardinality(S)}
                Run(n) == Enumerate(cb, 0, n)
                Status(r) == IF r.calls = 0 THEN "UNKNOWN"
                             ELSE IF r.calls = Cardinality(S) /\ ~r.cb.stopped
                                  THEN "OPTIMAL" ELSE "FEASIBLE"
            IN  UNION {{OrtOut(Status(Run(n)), s, Run(n).cb, Run(n).calls, {}) :
                            s \in IF Run(n).calls = 0 THEN {<<>>} ELSE S} : n \in Found}
        ELSE IF st.ort_objective.some THEN
            {OrtOut("OPTIMAL", s, cb, 0, {}) :
                s \in Best(S, st.ort_objective.h, st.ort_objective.minimize)}
            \cup (IF limited THEN {OrtOut("FEASIBLE", s, cb, 0, {}) : s \in S} ELSE {})
            \cup GaveUp
        ELSE {OrtOut("OPTIMAL", s, cb, 0, {}) : s \in S} \cup GaveUp

-----------------------------------------------------------------------------
(* CPM_ortools.solve *)

\* SolverInterface._solve_return: a solution is available
solve_return(status) == status \in {"FEASIBLE", "OPTIMAL"}

\* the result of a handler: state, error raised (or ""), returned value,
\* callback object, callback invocations, native calls made
Result(st, err, ret, cb, calls, native) ==
    [st |-> st, err |-> err, ret |-> ret, cb |-> cb, calls |-> calls, native |-> native]

NewVarCalls(st0, st1) == IF st1.native_vars # st0.native_vars THEN {"NewVar"} ELSE {}

\* solve up to the call of the engine: user variables, time limit,
\* assumptions, keyword arguments
ort_presolve(st, time_limit, assumptions, enumerate) ==
    LET st1 == ensure_user_vars(st)
        n1 == NewVarCalls(st, st1)
    IN  IF time_limit.some /\ time_limit.v <= 0
        THEN Result(st1, "ValueError", 0, NoCallback, 0, n1)
        ELSE
        LET st2 == IF time_limit.some
                   THEN [st1 EXCEPT !.params.max_time_in_seconds = Some(time_limit.v)]
                   ELSE st1
            n2 == n1 \cup IF time_limit.some THEN {"SetParam"} ELSE {}
            st3a == solver_vars(st2, assumptions.v)
            st3 == IF assumptions.some
                   THEN [st3a EXCEPT
                          !.assumption_dict =
                              Some({<<handle(st3a, assumptions.v[i]), assumptions.v[i]>> :
                                       i \in 1..Len(assumptions.v)}),
                          !.native_assum =
                              {handle(st3a, assumptions.v[i]) : i \in 1..Len(assumptions.v)},
                          !.params.keep_all_feasible_solutions_in_presolve = TRUE]
                   ELSE st2
            n3 == n2 \cup NewVarCalls(st2, st3)
                     \cup IF assumptions.some
                          THEN {"ClearAssumptions", "AddAssumptions", "SetParam"} ELSE {}
            st4 == IF enumerate
                   THEN [st3 EXCEPT !.params.enumerate_all_solutions = TRUE]
                   ELSE st3
            n4 == n3 \cup IF enumerate THEN {"SetParam"} ELSE {}
        IN  Result(st4, "", 0, NoCallback, 0, n4)

\* translation of the engine's status
ort_exitstatus(st, status, enumerate) ==
    CASE status = "FEASIBLE" -> "FEASIBLE"
      [] status = "OPTIMAL" ->
            IF has_objective_ort(st) THEN "OPTIMAL"
            ELSE IF enumerate THEN "OPTIMAL" ELSE "FEASIBLE"
      [] status = "INFEASIBLE" -> "UNSATISFIABLE"
      [] status = "UNKNOWN" -> "UNKNOWN"
      [] OTHER -> "raise"

\* values of the user variables read from the solution, Booleans as bool
ort_fill_values(st, sol) ==
    [v \in AllVars |->
        IF v \in st.user_vars
        THEN LET val == IntValue(LitVal(sol, handle(st, Var(v)))) IN
             IF is_bool(v) THEN bool(val) ELSE val
        ELSE st.value[v]]

\* a solve that leaves the values of an earlier solution in place
clear_values_kept(st) == st.value

clear_values(st) ==
    [v \in AllVars |-> IF v \in st.user_vars THEN NoValue ELSE st.value[v]]

\* solve after the engine answered o
ort_postsolve(st, o, enumerate, native) ==
    LET st1 == [st EXCEPT !.ort_status = o.status, !.native_core = o.core]
        es == ort_exitstatus(st1, o.status, enumerate)
    IN  IF es = "raise" THEN Result(st1, "Exception", 0, o.cb, o.calls, native)
        ELSE
        LET st2 == [st1 EXCEPT !.exitstatus = es]
            has_sol == solve_return(es)
            st3 == [st2 EXCEPT !.objective_value_ = None]
            st4 == IF has_sol
                   THEN [st3 EXCEPT
                          !.value = ort_fill_values(st3, o.sol),
                          !.objective_value_ =
                              IF has_objective_ort(st3)
                              THEN Some(LitVal(o.sol, st3.ort_objective.h))
                              ELSE None]
                   ELSE [st3 EXCEPT !.value = clear_values(st3)]
        IN  Result(st4, "", IF has_sol THEN 1 ELSE 0, o.cb, o.calls, native)

\* every way solve(time_limit, assumptions, solution_callback=cb, **kwargs) can end
ort_solve(st, time_limit, assumptions, enumerate, cb) ==
    LET p == ort_presolve(st, time_limit, assumptions, enumerate) IN
    IF p.err # "" THEN {p}
    ELSE {ort_postsolve(p.st, o, enumerate, p.native \cup {"Solve"}) :
             o \in OrtOutcomes(p.st, cb)}

\* a solveAll that enumerates whether or not an objective is set
ort_solveAll_unguarded(st, time_limit, solution_limit) ==
    {[r EXCEPT !.ret = IF r.err = "" THEN solution_count(r.cb) ELSE 0] :
        r \in ort_solve(st, time_limit, NoneSeq, TRUE,
                        OrtSolutionPrinter(solution_limit))}

\* every way solveAll(time_limit, solution_limit) can end
ort_solveAll(st, time_limit, solution_limit) ==
    IF has_objective_ort(st)
    THEN {Result(st, "NotSupportedError", 0, NoCallback, 0, {})}
    ELSE {[r EXCEPT !.ret = IF r.err = "" THEN solution_count(r.cb) ELSE 0] :
             r \in ort_solve(st, time_limit, NoneSeq, TRUE,
                             OrtSolutionPrinter(solution_limit))}

\* the AddHint loop over zip(cpm_vars, vals)
RECURSIVE ort_add_hints(_, _, _)
ort_add_hints(st, cpm_vars, vals) ==
    IF cpm_vars = <<>> \/ vals = <<>> THEN st
    ELSE LET st1 == solver_var(st, Head(cpm_vars)) IN
         ort_add_hints([st1 EXCEPT !.native_hints =
                           Append(@, <<handle(st1, Head(cpm_vars)), Head(vals)>>)],
                       Tail(cpm_vars), Tail(vals))

\* a solution_hint that adds to the hints already there
ort_solution_hint_accumulating(st, cpm_vars, vals) ==
    IF Len(cpm_vars) # Len(vals)
    THEN Result(st, "AssertionError", 0, NoCallback, 0, {})
    ELSE LET st2 == ort_add_hints(st, cpm_vars, vals) IN
         Result(st2, "", 0, NoCallback, 0,
                NewVarCalls(st, st2) \cup IF cpm_vars # <<>> THEN {"AddHint"} ELSE {})

\* solution_hint(cpm_vars, vals): ClearHints(), the length assertion, then
\* AddHint for every pair
ort_solution_hint(st, cpm_vars, vals) ==
    LET st1 == [st EXCEPT !.native_hints = <<>>] IN
    IF Len(cpm_vars) # Len(vals)
    THEN Result(st1, "AssertionError", 0, NoCallback, 0, {"ClearHints"})
    ELSE LET st2 == ort_add_hints(st1, cpm_vars, vals) IN
         Result(st2, "", 0, NoCallback, 0,
                {"ClearHints"} \cup NewVarCalls(st1, st2)
                    \cup IF cpm_vars # <<>> THEN {"AddHint"} ELSE {})

\* get_core(): the assumption variables of the engine's core
ort_get_core(st) ==
    IF st.ort_status = "unset" THEN [err |-> "AttributeError", core |-> {}]
    ELSE IF st.ort_status # "INFEASIBLE" \/ ~st.assumption_dict.some
    THEN [err |-> "AssertionError", core |-> {}]
    ELSE IF \E i \in st.native_core : \A e \in st.assumption_dict.v : e[1] # i
    THEN [err |-> "KeyError", core |-> {}]
    ELSE [err |-> "",
          core |-> {e[2] : e \in {d \in st.assumption_dict.v : d[1] \in st.native_core}}]

-----------------------------------------------------------------------------
(* CPM_pumpkin: transform, _sum_args, _get_constraint, __add__, objective *)

ObjVarSeq == <<"o1", "o2", "o3">>

\* expr == obj_var, as CPM_pumpkin.objective adds it
CEq(expr, obj_var) == Con("==", <<expr, obj_var>>)

pum_stages ==
    <<Stage("toplevel_list", FALSE),
      Stage("decompose_in_tree", FALSE),
      Stage("no_partial_functions", FALSE),
      Stage("flatten_constraint", FALSE),
      Stage("only_bv_reifies", FALSE),
      Stage("only_implies", FALSE),
      Stage("reify_rewrite", FALSE),
      Stage("only_numexpr_equality", FALSE),
      Stage("canonical_comparison", FALSE)>>

pum_transform(st, con) == run_stages(pum_stages, Transforming(st, <<con>>))

\* _sum_args for a wsum: the terms with weight 0 are left out
RECURSIVE sum_args(_, _, _, _)
sum_args(st, args, w, negate) ==
    IF args = <<>> THEN [st |-> st, lits |-> <<>>, w |-> <<>>]
    ELSE IF w[1] = 0 THEN sum_args(st, Tail(args), Tail(w), negate)
    ELSE LET st1 == solver_var(st, args[1])
             r == sum_args(st1, Tail(args), Tail(w), negate)
         IN  [st |-> r.st,
              lits |-> <<handle(st1, args[1])>> \o r.lits,
              w |-> <<IF negate THEN -w[1] ELSE w[1]>> \o r.w]

\* a comparison of a sum, wsum or sub with a constant has the kind
\* lhs.name followed by the comparison's name, as in "sum<=" and "sub!="
Comparators == {"==", "<=", "<", ">=", ">", "!="}
LinearNames == {"sum", "wsum", "sub"}
LinearComparisons == {n \o c : n \in LinearNames, c \in Comparators}
lhs_name(k) == CHOOSE n \in LinearNames : \E c \in Comparators : k = n \o c
cmp_name(k) == CHOOSE c \in Comparators : \E n \in LinearNames : k = n \o c

\* _sum_args(expr, negate): the scaled native terms of a sum or a wsum; for a
\* sub the test isinstance(Operator, expr) is given an expression where a
\* type is required
pum_sum_args(st, con, negate) ==
    CASE lhs_name(con.k) = "sum" ->
            [err |-> ""] @@ sum_args(st, con.args, [i \in 1..Len(con.args) |-> 1], negate)
      [] lhs_name(con.k) = "wsum" ->
            [err |-> ""] @@ sum_args(st, con.args, con.w, negate)
      [] OTHER -> [st |-> st, lits |-> <<>>, w |-> <<>>, err |-> "TypeError"]

\* the native linear constraint for terms r and the comparison cmp with rhs
pum_linear(r, cmp, rhs) ==
    [st |-> r.st, err |-> r.err,
     cons |-> IF r.err # "" THEN {}
              ELSE {[k |-> CASE cmp = "==" -> "Equals"
                            [] cmp = "!=" -> "NotEquals"
                            [] OTHER -> "LessThanOrEquals",
                     lits |-> r.lits, w |-> r.w,
                     rhs |-> CASE cmp = "<" -> rhs - 1
                              [] cmp = ">=" -> -rhs
                              [] cmp = ">" -> -rhs - 1
                              [] OTHER -> rhs]}]

\* the native constraint of kind k over the variables args, which st has
pum_constraint(st, k, args) ==
    [st |-> st, err |-> "", cons |-> {NativeCon(k, handles(st, args))}]

\* _get_constraint: the native constraints of one transformed constraint
pum_get_constraint(st, con) ==
    CASE con.k \in {"boolvar", "or"} ->
            pum_constraint(solver_vars(st, con.args), "BoolOr", con.args)
      [] con.k = "alldifferent" ->
            pum_constraint(solver_vars(st, con.args), "AllDifferent", con.args)
      [] con.k = "max==" ->
            \* pum_rhs = self._ivars(rhs), then Maximum(self._ivars(lhs.args), pum_rhs)
            pum_constraint(solver_vars(solver_var(st, con.args[3]), SubSeq(con.args, 1, 2)),
                           "Maximum", con.args)
      [] con.k \in LinearComparisons ->
            pum_linear(pum_sum_args(st, con, cmp_name(con.k) \in {">=", ">"}),
                       cmp_name(con.k), con.rhs)
      [] con.k = "pow" ->
            \* pum_rhs = self._ivars(rhs) comes first, then no lhs name matches
            [st |-> solver_var(st, con.args[3]), err |-> "NotImplementedError", cons |-> {}]
      [] OTHER -> [st |-> st, err |-> "NotImplementedError", cons |-> {}]

\* add_implication(cons, self.solver_var(bv)) with r what _get_constraint
\* returned for the consequent
pum_add_implication(r, con) ==
    IF r.err # "" THEN [st |-> r.st, err |-> r.err]
    ELSE [st |-> AddNative(solver_var(r.st, con.args[1]), "Implication", con.args, <<>>, 0),
          err |-> ""]

\* add_constraint(cons) for the constraints r that _get_constraint returned
pum_add_constraint(r) ==
    IF r.err # "" THEN [st |-> r.st, err |-> r.err]
    ELSE [st |-> [r.st EXCEPT !.native_cons = @ \cup r.cons], err |-> ""]

\* posting one transformed constraint in __add__
pum_post(st, con) ==
    IF con.k = "->"
    THEN pum_add_implication(pum_get_constraint(st, Con("boolvar", <<con.args[2]>>)), con)
    ELSE pum_add_constraint(pum_get_constraint(st, con))

RECURSIVE pum_post_all(_, _)
\* the loop goes on after the outcome r unless the call raised
pum_post_rest(r, cons) == IF r.err # "" THEN r ELSE pum_post_all(r.st, cons)

pum_post_all(st, cons) ==
    IF cons = <<>> THEN [st |-> st, err |-> ""]
    ELSE pum_post_rest(pum_post(st, Head(cons)), Tail(cons))

\* the inner loop of __add__ over the constraints t that transform returned
pum_post_transformed(st, t) ==
    [stages |-> t.trace] @@ pum_post_all(Transformed(st, t), t.cons)

\* one top-level constraint in __add__: recorded in user_cons, transformed
\* and posted
pum_add_one(st, orig_expr) ==
    pum_post_transformed([st EXCEPT !.user_cons = @ \cup {orig_expr}],
                         pum_transform(st, orig_expr))

\* the loop of __add__ over the top-level constraints: one already in
\* user_cons is skipped; r is the outcome so far
RECURSIVE pum_add_each(_, _)
pum_add_each(r, exprs) ==
    IF exprs = <<>> \/ r.err # "" THEN r
    ELSE IF Head(exprs) \in r.st.user_cons THEN pum_add_each(r, Tail(exprs))
    ELSE pum_add_each(pum_add_one(r.st, Head(exprs)), Tail(exprs))

pum_add(st, cpm_expr) ==
    pum_add_each([st |-> collect(st, cpm_expr), err |-> "", stages |-> <<>>], cpm_expr)

\* objective(expr, minimize): a new variable equal to expr becomes the objective
pum_objective_call(st, expr, minimize) ==
    LET obj_var == ObjVarSeq[Cardinality(st.user_vars \cap ObjVars) + 1]
        r == pum_add(st, <<CEq(expr, Var(obj_var))>>)
    IN  [r.st EXCEPT !.pum_objective =
            [some |-> TRUE, v |-> obj_var, minimize |-> minimize]]

has_objective_pum(st) == st.pum_objective.some

-----------------------------------------------------------------------------
(* CPM_pumpkin: to_predicate, solve, get_core *)

\* to_predicate of an assumption literal: [x >= 1] for x, [x <= 0] for ~x
to_predicate(st, a) ==
    IF a.neg THEN Predicate(st.varmap[a.v], "<=", 0)
    ELSE Predicate(st.varmap[a.v], ">=", 1)

PumOut(kind, sol, core) == [kind |-> kind, sol |-> sol, core |-> core]

\* pum_solver.optimise(objective, direction)
PumOptimise(st) ==
    LET S == NativeSols(st.native_vars, st.native_cons, {}, {})
        h == st.varmap[st.pum_objective.v]
    IN  {PumOut("Unknown", <<>>, {})} \cup
        IF S = {} THEN {PumOut("Unsatisfiable", <<>>, {})}
        ELSE {PumOut("Optimal", s, {}) : s \in Best(S, h, st.pum_objective.minimize)}
             \cup {PumOut("Satisfiable", s, {}) : s \in S}

\* pum_solver.satisfy_under_assumptions(assumptions)
PumSatisfyUnderAssumptions(st, preds) ==
    LET S0 == NativeSols(st.native_vars, st.native_cons, {}, {})
        S == NativeSols(st.native_vars, st.native_cons, {}, preds)
    IN  {PumOut("Unknown", <<>>, {})} \cup
        IF S0 = {} THEN {PumOut("Unsatisfiable", <<>>, {})}
        ELSE IF S = {}
        THEN {PumOut("UnsatisfiableUnderAssumptions", <<>>, K) :
                 K \in {K \in SUBSET preds :
                           NativeSols(st.native_vars, st.native_cons, {}, K) = {}}}
        ELSE {PumOut("Satisfiable", s, {}) : s \in S}

pum_exitstatus(kind) ==
    CASE kind = "Optimal" -> "OPTIMAL"
      [] kind = "Satisfiable" -> "FEASIBLE"
      [] kind = "Unsatisfiable" -> "UNSATISFIABLE"
      [] kind = "UnsatisfiableUnderAssumptions" -> "UNSATISFIABLE"
      [] kind = "Unknown" -> "UNKNOWN"
      [] OTHER -> "raise"

\* exit status of satisfy_under_assumptions: Satisfiable is reported OPTIMAL
pum_exitstatus_assum(kind) ==
    IF kind = "Satisfiable" THEN "OPTIMAL" ELSE pum_exitstatus(kind)

\* int_value for integer handles, bool_value for Boolean handles
pum_fill_values(st, sol) ==
    [v \in AllVars |->
        IF v \in st.user_vars
        THEN IF is_bool(v) THEN BoolValue(LitVal(sol, st.varmap[v]))
             ELSE IntValue(LitVal(sol, st.varmap[v]))
        ELSE st.value[v]]

\* solve after the engine answered o
pum_postsolve(st, o, with_assumptions, native) ==
    LET st1 == IF o.kind = "UnsatisfiableUnderAssumptions"
               THEN [st EXCEPT !.pum_core = [st |-> "set", v |-> o.core]]
               ELSE st
        es == IF has_objective_pum(st) THEN pum_exitstatus(o.kind)
              ELSE pum_exitstatus_assum(o.kind)
        has_sol == solve_return(es)
        st2 == IF has_sol
               THEN [st1 EXCEPT
                      !.exitstatus = "OPTIMAL",
                      !.value = pum_fill_values(st1, o.sol),
                      !.objective_value_ =
                          IF has_objective_pum(st1)
                          THEN Some(LitVal(o.sol, st1.varmap[st1.pum_objective.v]))
                          ELSE @]
               ELSE [st1 EXCEPT !.exitstatus = es, !.value = clear_values(st1)]
    IN  [kind |-> o.kind] @@ Result(st2, "", IF has_sol THEN 1 ELSE 0, NoCallback, 0, native)

\* solve raised err before the engine was called
pum_raise(st, err, native) == [kind |-> ""] @@ Result(st, err, 0, NoCallback, 0, native)

\* solve up to `if proof is not None: self.prefix = proof`
pum_presolve(st, proof) ==
    IF proof.some THEN [ensure_user_vars(st) EXCEPT !.prefix = proof]
    ELSE ensure_user_vars(st)

\* solve from `if self.has_objective()` on; st1 is the state reached before it
\* and n1 the native calls made so far
pum_solve_from(st1, n1, proof, assumptions) ==
    IF has_objective_pum(st1)
    THEN IF assumptions.some
         THEN {pum_raise(st1, "AssertionError", n1)}
         ELSE LET st2 == [st1 EXCEPT !.pum_core = [st |-> "None", v |-> {}]] IN
              {pum_postsolve(st2, o, FALSE, n1 \cup {"optimise"}) :
                  o \in PumOptimise(st2)}
    ELSE IF assumptions.some
    THEN IF proof.some
         THEN {pum_raise(st1, "AssertionError", n1)}
         ELSE LET st2 == solver_vars(st1, assumptions.v)
                  preds == [i \in 1..Len(assumptions.v) |-> to_predicate(st2, assumptions.v[i])]
                  st3 == [st2 EXCEPT
                           !.assumption_dict =
                               Some({<<preds[i], assumptions.v[i]>> : i \in 1..Len(preds)}),
                           !.pum_core = [st |-> "None", v |-> {}]]
                  n3 == n1 \cup NewVarCalls(st1, st2) \cup {"satisfy_under_assumptions"}
              IN  {pum_postsolve(st3, o, TRUE, n3) :
                      o \in PumSatisfyUnderAssumptions(st3, {preds[i] : i \in 1..Len(preds)})}
    ELSE \* kwargs.update(proof[proof]): None and a string are both subscripted
         {pum_raise(st1, "TypeError", n1)}

\* every way solve(time_limit, proof, assumptions) can end
pum_solve(st, time_limit, proof, assumptions) ==
    pum_solve_from(pum_presolve(st, proof), NewVarCalls(st, ensure_user_vars(st)),
                   proof, assumptions)

\* get_core(): the assumption variables of the core of the last solve
pum_get_core(st) ==
    IF st.pum_core.st = "unset" THEN [err |-> "AttributeError", core |-> {}]
    ELSE IF st.pum_core.st = "None" THEN [err |-> "AssertionError", core |-> {}]
    ELSE [err |-> "",
          core |-> {e[2] : e \in {d \in st.assumption_dict.v : d[1] \in st.pum_core.v}}]

-----------------------------------------------------------------------------
(* Inputs of the calls *)

\* add(cpm_expr): one constraint or a list of them
AddInputs ==
    {<<CImp>>, <<CNotX>>, <<CX, CNotX>>, <<CAllDiff>>, <<COr, CPowVar>>, <<CPowVar, CImp>>,
     <<CMaxC, CMaxB>>, <<COr3, CImp>>}

\* objective(expr, minimize)
ObjExprs == {Var("a"), Var("c")}

\* solve(time_limit=...)
TimeLimits == {None, Some(-1), Some(0), Some(1)}

\* solve(proof=...)
ProofInputs == {None, Some("proof")}

\* solve(assumptions=...)
AssumptionInputs ==
    {NoneSeq, Some(<<Var("x"), NegBoolView("y")>>), Some(<<Var("x"), NegBoolView("x")>>)}

\* solveAll(solution_limit=...)
SolutionLimits == {None, Some(0), Some(2)}

\* solution_hint(cpm_vars, vals)
HintInputs ==
    {<<<<Var("x")>>, <<1>>>>,
     <<<<Var("y"), Var("x")>>, <<0, 0>>>>,
     <<<<Var("x"), Var("y")>>, <<1>>>>}

\* the programs considered use one adapter instance over Boolean variables or
\* over integer variables, not both
OneUniverse(st) ==
    LET V == st.user_vars \cup DOMAIN st.varmap IN
    V \subseteq BoolVars \/ V \cap BoolVars = {}

-----------------------------------------------------------------------------
(* The state machine *)

NoneSet == [some |-> FALSE, v |-> {}]

\* no function of utils.py has been called
NoUtil == [op |-> "none"]

NoCall ==
    [op |-> "init", out |-> "", ret |-> 0, tl |-> None, assum |-> NoneSeq,
     limit |-> None, calls |-> 0, native |-> {}, e |-> "", minimize |-> TRUE,
     core |-> {}, exprs |-> <<>>, stages |-> <<>>, vars |-> <<>>, vals |-> <<>>,
     hints_before |-> <<>>, proof |-> None, kind |-> ""]

NoSolve == [called |-> FALSE, assum |-> NoneSeq, out |-> "", prev_true |-> FALSE]

\* CPM_ortools.__init__ / CPM_pumpkin.__init__ with no model given
Init ==
    /\ solver \in {"ortools", "pumpkin"}
    /\ user_vars = {}
    /\ value = [v \in AllVars |-> NoValue]
    /\ varmap = <<>>
    /\ native_vars = <<>>
    /\ native_cons = {}
    /\ native_assum = {}
    /\ ort_objective = NoObjective
    /\ params = [max_time_in_seconds |-> None,
                 enumerate_all_solutions |-> FALSE,
                 keep_all_feasible_solutions_in_presolve |-> FALSE]
    /\ assumption_dict = NoneSet
    /\ ort_status = "unset"
    /\ exitstatus = "NOT_RUN"
    /\ objective_value_ = None
    /\ pum_objective = [some |-> FALSE, v |-> "", minimize |-> TRUE]
    /\ pum_core = [st |-> "unset", v |-> {}]
    /\ user_cons = {}
    /\ prefix = None
    /\ native_core = {}
    /\ native_hints = <<>>
    /\ csemap = {}
    /\ aux_count = 0
    /\ util = NoUtil
    /\ last_solve = NoSolve
    /\ last = NoCall
    /\ objective_calls = <<>>
    /\ nops = 0

Outcome(r) == IF r.err # "" THEN r.err ELSE IF r.ret = 1 THEN "true" ELSE "false"

OrtAdd ==
    /\ solver = "ortools"
    /\ nops < MaxOps
    /\ \E cpm_expr \in AddInputs :
         LET r == ort_add(Self, cpm_expr) IN
         /\ OneUniverse(r.st)
         /\ Becomes(r.st)
         /\ last' = [NoCall EXCEPT !.op = "add", !.exprs = cpm_expr,
                        !.out = IF r.err = "" THEN "ok" ELSE r.err,
                        !.stages = r.stages]
    /\ nops' = nops + 1
    /\ UNCHANGED <<last_solve, objective_calls>>

OrtObjective ==
    /\ solver = "ortools"
    /\ nops < MaxOps
    /\ \E expr \in ObjExprs, minimize \in BOOLEAN :
         /\ OneUniverse(ort_objective_call(Self, expr, minimize))
         /\ Becomes(ort_objective_call(Self, expr, minimize))
         /\ last' = [NoCall EXCEPT !.op = "objective", !.out = "ok",
                        !.e = expr.v, !.minimize = minimize]
         /\ objective_calls' =
                Append(objective_calls, [e |-> expr, minimize |-> minimize])
    /\ nops' = nops + 1
    /\ UNCHANGED last_solve

OrtSolve ==
    /\ solver = "ortools"
    /\ nops < MaxOps
    /\ \E time_limit \in TimeLimits, assumptions \in AssumptionInputs :
         \E r \in ort_solve(Self, time_limit, assumptions, FALSE, NoCallback) :
            /\ OneUniverse(r.st)
            /\ Becomes(r.st)
            /\ last' = [NoCall EXCEPT !.op = "solve", !.out = Outcome(r),
                           !.tl = time_limit, !.assum = assumptions,
                           !.native = r.native]
            /\ last_solve' = [called |-> TRUE, assum |-> assumptions, out |-> Outcome(r),
                              prev_true |-> last_solve.out = "true"]
    /\ nops' = nops + 1
    /\ UNCHANGED objective_calls

OrtSolveAll ==
    /\ solver = "ortools"
    /\ nops < MaxOps
    /\ \E time_limit \in TimeLimits, solution_limit \in SolutionLimits :
         \E r \in ort_solveAll(Self, time_limit, solution_limit) :
            /\ Becomes(r.st)
            /\ last' = [NoCall EXCEPT !.op = "solveAll",
                           !.out = IF r.err = "" THEN "ok" ELSE r.err,
                           !.ret = r.ret, !.tl = time_limit, !.limit = solution_limit,
                           !.calls = r.calls, !.native = r.native]
            /\ last_solve' = IF r.err = "NotSupportedError" THEN last_solve
                             ELSE [called |-> TRUE, assum |-> NoneSeq,
                                   out |-> IF r.err # "" THEN r.err
                                           ELSE IF solve_return(r.st.exitstatus)
                                                THEN "true" ELSE "false",
                                   prev_true |-> last_solve.out = "true"]
    /\ nops' = nops + 1
    /\ UNCHANGED objective_calls

OrtGetCore ==
    /\ solver = "ortools"
    /\ nops < MaxOps
    /\ LET r == ort_get_core(Self) IN
       last' = [NoCall EXCEPT !.op = "get_core",
                   !.out = IF r.err = "" THEN "ok" ELSE r.err, !.core = r.core]
    /\ nops' = nops + 1
    /\ UNCHANGED <<solver, user_vars, value, varmap, native_vars, native_cons,
                   native_assum, ort_objective, params, assumption_dict, ort_status,
                   exitstatus, objective_value_, pum_objective, pum_core, user_cons,
                   prefix,
                   native_core, native_hints, csemap, aux_count,
                   last_solve, objective_calls, util>>

OrtSolutionHint ==
    /\ solver = "ortools"
    /\ nops < MaxOps
    /\ \E h \in HintInputs :
         LET r == ort_solution_hint(Self, h[1], h[2]) IN
         /\ OneUniverse(r.st)
         /\ Becomes(r.st)
         /\ last' = [NoCall EXCEPT !.op = "solution_hint",
                        !.out = IF r.err = "" THEN "ok" ELSE r.err,
                        !.vars = h[1], !.vals = h[2], !.native = r.native,
                        !.hints_before = native_hints]
    /\ nops' = nops + 1
    /\ UNCHANGED <<last_solve, objective_calls>>

PumAdd ==
    /\ solver = "pumpkin"
    /\ nops < MaxOps
    /\ \E cpm_expr \in AddInputs :
         LET r == pum_add(Self, cpm_expr) IN
         /\ OneUniverse(r.st)
         /\ Becomes(r.st)
         /\ last' = [NoCall EXCEPT !.op = "add", !.exprs = cpm_expr,
                        !.out = IF r.err = "" THEN "ok" ELSE r.err,
                        !.stages = r.stages]
    /\ nops' = nops + 1
    /\ UNCHANGED <<last_solve, objective_calls>>

PumObjective ==
    /\ solver = "pumpkin"
    /\ nops < MaxOps
    /\ Cardinality(user_vars \cap ObjVars) < MaxObjectives
    /\ \E expr \in ObjExprs, minimize \in BOOLEAN :
         /\ OneUniverse(pum_objective_call(Self, expr, minimize))
         /\ Becomes(pum_objective_call(Self, expr, minimize))
         /\ last' = [NoCall EXCEPT !.op = "objective", !.out = "ok",
                        !.e = expr.v, !.minimize = minimize]
         /\ objective_calls' =
                Append(objective_calls, [e |-> expr, minimize |-> minimize])
    /\ nops' = nops + 1
    /\ UNCHANGED last_solve

PumSolve ==
    /\ solver = "pumpkin"
    /\ nops < MaxOps
    /\ \E time_limit \in TimeLimits, proof \in ProofInputs,
          assumptions \in AssumptionInputs :
         \E r \in pum_solve(Self, time_limit, proof, assumptions) :
            /\ OneUniverse(r.st)
            /\ Becomes(r.st)
            /\ last' = [NoCall EXCEPT !.op = "solve", !.out = Outcome(r),
                           !.tl = time_limit, !.assum = assumptions,
                           !.proof = proof, !.native = r.native, !.kind = r.kind]
            /\ last_solve' = [called |-> TRUE, assum |-> assumptions, out |-> Outcome(r),
                              prev_true |-> last_solve.out = "true"]
    /\ nops' = nops + 1
    /\ UNCHANGED objective_calls

PumGetCore ==
    /\ solver = "pumpkin"
    /\ nops < MaxOps
    /\ LET r == pum_get_core(Self) IN
       last' = [NoCall EXCEPT !.op = "get_core",
                   !.out = IF r.err = "" THEN "ok" ELSE r.err, !.core = r.core]
    /\ nops' = nops + 1
    /\ UNCHANGED <<solver, user_vars, value, varmap, native_vars, native_cons,
                   native_assum, ort_objective, params, assumption_dict, ort_status,
                   exitstatus, objective_value_, pum_objective, pum_core, user_cons,
                   prefix,
                   native_core, native_hints, csemap, aux_count,
                   last_solve, objective_calls, util>>

Next ==
    \/ OrtAdd
    \/ OrtObjective
    \/ OrtSolve
    \/ OrtSolveAll
    \/ OrtGetCore
    \/ OrtSolutionHint
    \/ PumAdd
    \/ PumObjective
    \/ PumSolve
    \/ PumGetCore

Spec == Init /\ [][Next]_vars

-----------------------------------------------------------------------------
(* Values of the user variables after solve *)

\* C1: on both adapters, right after a solve() that returned false every user
\* variable has value None, whatever an earlier solve left in it
C1_FalseSolveClearsValues ==
    (last.op = "solve" /\ last.out = "false") =>
        \A v \in user_vars : value[v] = NoValue

\* a solve() returned false after an earlier solve returned true
C1_FalseAfterTrue ==
    /\ last.op = "solve" /\ last.out = "false"
    /\ last_solve.prev_true
    /\ user_vars # {}

\* the user variables that occur in no constraint posted to the engine
Unconstrained ==
    {v \in user_vars :
        \A c \in native_cons : \A i \in 1..Len(c.lits) :
            v \in DOMAIN varmap => c.lits[i] \notin {varmap[v], Not(varmap[v])}}

\* C2: right after a solve() that returned true every user variable has a
\* value, a bool for a Boolean variable and an integer of its domain otherwise
C2_TrueSolveFillsValues ==
    (last.op = "solve" /\ last.out = "true") =>
        \A v \in user_vars :
            /\ value[v] # NoValue
            /\ value[v].t = IF is_bool(v) THEN "bool" ELSE "int"
            /\ value[v].v \in lb(v)..ub(v)

\* a solve() returned true with a Boolean user variable that is in no posted
\* constraint
C2_TrueWithUnconstrained ==
    /\ last.op = "solve" /\ last.out = "true"
    /\ Unconstrained \cap BoolVars # {}

-----------------------------------------------------------------------------
(* Time limit, assumptions and cores *)

\* the adapter and its native model, without the record of the calls made
adapter == <<user_vars, value, varmap, native_vars, native_cons, native_assum,
             ort_objective, params, assumption_dict, ort_status, exitstatus,
             objective_value_, pum_objective, pum_core, user_cons, prefix, native_core,
             native_hints, csemap, aux_count>>

\* C3: on every adapter solve(time_limit=t) with t <= 0 raises an error
\* without any call to the native engine and leaves the adapter as it was
C3_NonPositiveTimeLimitRejected ==
    [][(last'.op = "solve" /\ last'.tl.some /\ last'.tl.v <= 0) =>
          /\ last'.out \notin {"true", "false"}
          /\ last'.native = {}
          /\ UNCHANGED adapter]_vars

\* C4: after a solve() called without assumptions the native model carries
\* no assumption literal of an earlier call, and the solve reports
\* UNSATISFIABLE only if the constraints alone have no solution
C4_AssumptionsLastOneSolve ==
    (last.op = "solve" /\ ~last.assum.some /\ last.out \in {"true", "false"}) =>
        /\ native_assum = {}
        /\ exitstatus = "UNSATISFIABLE" =>
               NativeSols(native_vars, native_cons, {}, {}) = {}

\* the most recent solve call was given assumptions and ended UNSATISFIABLE
UnsatUnderAssumptions ==
    /\ last_solve.called
    /\ last_solve.assum.some
    /\ last_solve.out = "false"
    /\ exitstatus = "UNSATISFIABLE"

\* C5: get_core() raises when no solve was made yet, when the most recent
\* solve returned true, and when the most recent solve was called without
\* assumptions, whatever an earlier solve was given
C5_GetCoreNeedsUnsatAssumptions ==
    (/\ last.op = "get_core"
     /\ \/ ~last_solve.called
        \/ last_solve.out = "true"
        \/ last_solve.out \in {"true", "false"} /\ ~last_solve.assum.some) =>
        last.out # "ok"

\* C6: after a solve(assumptions=A) that ended UNSATISFIABLE, get_core()
\* returns literals of A as they were passed, the ones the reverse map gives
\* for the native core, and the constraints have no solution under them
C6_CoreIsUnsatSubset ==
    (last.op = "get_core" /\ UnsatUnderAssumptions) =>
        /\ last.out = "ok"
        /\ last.core \subseteq {last_solve.assum.v[i] : i \in 1..Len(last_solve.assum.v)}
        /\ NativeSols(native_vars, native_cons,
                      {handle(Self, l) : l \in last.core}, {}) = {}

-----------------------------------------------------------------------------
(* solveAll *)

\* C7: on an OR-Tools adapter with an objective set, solveAll() raises
\* NotSupportedError without a call to the native engine, and status, values,
\* parameters and variable cache stay as they were
C7_SolveAllRejectsObjective ==
    [][(solver = "ortools" /\ objective_calls # <<>> /\ last'.op = "solveAll") =>
          /\ last'.out = "NotSupportedError"
          /\ last'.native = {}
          /\ UNCHANGED adapter]_vars

\* solveAll() was rejected on an adapter that had solved with its objective
C7_RejectedAfterSolve ==
    /\ last.op = "solveAll" /\ last.out = "NotSupportedError"
    /\ objective_calls # <<>>
    /\ exitstatus \in {"OPTIMAL", "FEASIBLE"}

\* the native model is AllDifferent(a, b, c) over a, b, c in 1..3 and nothing else
AllDifferentModel ==
    /\ DOMAIN varmap = {"a", "b", "c"}
    /\ native_cons =
          {NativeCon("AllDifferent", <<varmap["a"], varmap["b"], varmap["c"]>>)}

\* the solveAll that ended last was given a solution limit k >= 1
Limited == last.limit.some /\ last.limit.v >= 1

\* C8: solveAll() returns the number of times the callback was invoked, and
\* on AllDifferent(a, b, c) with neither a solution limit nor a time limit it
\* returns 6
C8_SolveAllCountsCallbacks ==
    (last.op = "solveAll" /\ last.out = "ok") =>
        /\ last.ret = last.calls
        /\ (AllDifferentModel /\ ~Limited /\ ~params.max_time_in_seconds.some) =>
               last.ret = 6

\* solveAll() returned 6 on AllDifferent(a, b, c)
C8_SixPermutations ==
    /\ last.op = "solveAll" /\ last.out = "ok"
    /\ AllDifferentModel /\ ~Limited /\ ~params.max_time_in_seconds.some
    /\ last.ret = 6 /\ last.calls = 6

\* the number of solutions of the constraints posted
NumSolutions == Cardinality(NativeSols(native_vars, native_cons, {}, {}))

\* what solveAll is to return: min(k, number of solutions) under a limit
\* k >= 1, the number of solutions under the limit None or 0
ExpectedCount ==
    IF Limited /\ last.limit.v < NumSolutions THEN last.limit.v ELSE NumSolutions

-----------------------------------------------------------------------------
(* objective *)

\* the expression and direction of the most recent objective() call
LastObjective == objective_calls[Len(objective_calls)]

has_objective == IF solver = "ortools" THEN has_objective_ort(Self)
                 ELSE has_objective_pum(Self)

\* the native variable and direction the engine is asked to optimise
NativeObjective ==
    IF solver = "ortools"
    THEN [h |-> ort_objective.h, minimize |-> ort_objective.minimize]
    ELSE [h |-> varmap[pum_objective.v], minimize |-> pum_objective.minimize]

\* C10: once objective() was called, has_objective() is true and the engine
\* optimises, in the direction of the most recent call, a variable that equals
\* that call's expression in every solution; a solve that returns true
\* reports the value of that expression as objective value, and on OR-Tools
\* an OPTIMAL one reports its optimum in that direction
C10_LastObjectiveWins ==
    objective_calls # <<>> =>
        LET e == LastObjective.e
            S == NativeSols(native_vars, native_cons, native_assum, {})
        IN  /\ has_objective
            /\ NativeObjective.minimize = LastObjective.minimize
            /\ \A s \in S : LitVal(s, NativeObjective.h) = LitVal(s, handle(Self, e))
            /\ (last.op = "solve" /\ last.out = "true") =>
                   /\ objective_value_ = Some(value[e.v].v)
                   /\ (solver = "ortools" /\ exitstatus = "OPTIMAL") =>
                          \A s \in S :
                              IF LastObjective.minimize
                              THEN value[e.v].v <= LitVal(s, handle(Self, e))
                              ELSE value[e.v].v >= LitVal(s, handle(Self, e))

\* a solve returned true after two objective() calls that differ in expression
\* and direction, and the two expressions have different values
C10_SecondObjectiveSolved ==
    /\ last.op = "solve" /\ last.out = "true"
    /\ Len(objective_calls) = 2
    /\ objective_calls[1].e # objective_calls[2].e
    /\ objective_calls[1].minimize # objective_calls[2].minimize
    /\ value[objective_calls[1].e.v] # value[objective_calls[2].e.v]

-----------------------------------------------------------------------------
(* The user-variable set and the variable cache *)

\* C11: over any sequence of calls, raising ones included, no variable leaves
\* user_vars, and after add(exprs) or objective(e) every variable of the
\* expression passed is a member
C11_UserVarsOnlyGrow ==
    [][/\ user_vars \subseteq user_vars'
       /\ (last'.op = "add" => get_variables(last'.exprs) \subseteq user_vars')
       /\ (last'.op = "objective" => last'.e \in user_vars')]_vars

\* an add() raised with nothing posted but its variables registered, and a
\* solve, solution_hint or get_core call followed
C11_GrownThroughRaisingAdd ==
    /\ last.op \in {"solution_hint", "get_core", "solve"}
    /\ \E v \in get_variables(<<CPowVar>>) : v \in user_vars
    /\ native_cons = {}
    /\ nops >= 2

\* solver_var(~b) is the native negation of solver_var(b) and creates at most
\* the cache entry and the native variable of b
ViewResolvesToVariable(b) ==
    LET st1 == solver_var(Self, NegBoolView(b))
        st2 == solver_var(Self, Var(b))
    IN  /\ handle(st1, NegBoolView(b)) = Not(handle(st2, Var(b)))
        /\ DOMAIN st1.varmap \subseteq DOMAIN varmap \cup {b}
        /\ Len(st1.native_vars) <= Len(native_vars) + 1
        /\ (b \in DOMAIN varmap => st1 = Self)

\* C12: over any sequence of calls a cache entry once made keeps its native
\* handle, distinct variables have distinct handles, every key is a variable
\* and never a negated view, and solver_var(~b) is Not(solver_var(b)) with at
\* most the entry of b created
C12_VarmapStable ==
    [][/\ \A v \in DOMAIN varmap : v \in DOMAIN varmap' /\ varmap'[v] = varmap[v]
       /\ \A v, w \in DOMAIN varmap' : varmap'[v] = varmap'[w] => v = w
       /\ \A v \in DOMAIN varmap' : varmap'[v] \in 0..(Len(native_vars') - 1)
       /\ DOMAIN varmap' \subseteq AllVars \cup {AuxVarSeq[i] : i \in DOMAIN AuxVarSeq}
       /\ \A b \in BoolVars : ViewResolvesToVariable(b)']_vars

\* x is cached, posted as the negated view ~x, and assumed both as x and as ~x
C12_ViewAndVariableUsed ==
    /\ "x" \in DOMAIN varmap
    /\ {varmap["x"], Not(varmap["x"])} \subseteq native_assum
    /\ \E c \in native_cons : c.lits = <<Not(varmap["x"])>>

-----------------------------------------------------------------------------
(* transform(): the order of the stages and the CSE map *)

\* the order of the rewrite stages: toplevel listing, safening, decomposition,
\* flattening, reification rewriting, numeric equalities, implications
StageOrder ==
    <<"toplevel_list", "no_partial_functions", "decompose_in_tree",
      "flatten_constraint", "reify_rewrite", "only_numexpr_equality", "only_implies">>

\* C13: in the transform() of every adapter these stages run in StageOrder:
\* safening before decomposition, and only_implies after reify_rewrite and
\* only_numexpr_equality
C13_StagesInOrder ==
    (last.op = "add" /\ last.stages # <<>>) =>
        SelectSeq(last.stages, LAMBDA n : \E i \in DOMAIN StageOrder : StageOrder[i] = n)
            = StageOrder

\* the auxiliary variables the native model defines as max of the handles args
AuxiliariesOfMax(args) ==
    {c.lits[3] : c \in {d \in native_cons : d.k = "Maximum" /\ SubSeq(d.lits, 1, 2) = args}}

\* C14: within one adapter instance no sub-expression ever has two distinct
\* auxiliary variables: every max(..) that was flattened is defined by one
\* auxiliary variable, whatever the add() and objective() calls made
C14_OneAuxiliaryPerSubExpression ==
    \A c \in native_cons :
        c.k = "Maximum" => Cardinality(AuxiliariesOfMax(SubSeq(c.lits, 1, 2))) = 1

-----------------------------------------------------------------------------
(* Calls that raise *)

\* C15: an add() that raises an unsupported-expression error has posted
\* nothing: the constraints of the native model are those of before the call
C15_FailedAddPostsNothing ==
    [][(last'.op = "add" /\ last'.out \in {"NotSupportedError", "NotImplementedError"})
          => native_cons' = native_cons]_vars

\* C16: right after a solve() that raised, following a solve that returned
\* true, every user variable has value None
C16_RaisingSolveClearsValues ==
    (last.op = "solve" /\ last.out \notin {"true", "false"} /\ last_solve.prev_true) =>
        \A v \in user_vars : value[v] = NoValue

-----------------------------------------------------------------------------
(* solution_hint *)

\* C17: after a solution_hint(vars, vals) that succeeded the hints of the
\* native model are exactly the pairs of vars and vals, with nothing of an
\* earlier hint; a hint of matching lengths is accepted whatever the
\* constraints are
C17_HintReplaces ==
    (last.op = "solution_hint") =>
        /\ (Len(last.vars) = Len(last.vals) => last.out = "ok")
        /\ (last.out = "ok" =>
               native_hints = [i \in 1..Len(last.vars) |->
                                  <<handle(Self, last.vars[i]), last.vals[i]>>])

\* a hint replaced another one, and it gives x the value 1 although the
\* constraint ~x is posted
C17_SecondHintAgainstConstraint ==
    /\ last.op = "solution_hint" /\ last.out = "ok"
    /\ last.hints_before # <<>>
    /\ native_hints # last.hints_before
    /\ "x" \in DOMAIN varmap
    /\ \E c \in native_cons : c.k = "BoolOr" /\ c.lits = <<Not(varmap["x"])>>
    /\ \E i \in DOMAIN native_hints : native_hints[i] = <<varmap["x"], 1>>

\* C18: a solution_hint(vars, vals) with lists of different lengths raises
\* without a call to the native model, so the hints of an earlier call are
\* still in place
C18_MismatchKeepsHints ==
    (last.op = "solution_hint" /\ Len(last.vars) # Len(last.vals)) =>
        /\ last.out = "AssertionError"
        /\ last.native = {}
        /\ native_hints = last.hints_before

-----------------------------------------------------------------------------
(* cpmpy/solvers/utils.py: SolverLookup *)

\* SolverLookup.base_solvers(): the ordered list of (name, class)
base_solvers ==
    <<<<"ortools", "CPM_ortools">>,
      <<"z3", "CPM_z3">>,
      <<"minizinc", "CPM_minizinc">>,
      <<"gcs", "CPM_gcs">>,
      <<"gurobi", "CPM_gurobi">>,
      <<"pysat", "CPM_pysat">>,
      <<"pysdd", "CPM_pysdd">>,
      <<"exact", "CPM_exact">>,
      <<"choco", "CPM_choco">>,
      <<"pumpkin", "CPM_pumpkin">>,
      <<"cpo", "CPM_cpo">>>>

\* a solver name is a string, here a sequence of pieces: a piece is the
\* character ":" or a string without ":"
NamePieces == {"ortools", "pumpkin", "nosuch", ":"}

Range(f) == {f[i] : i \in DOMAIN f}

\* Python's ':' in name
HasColon(name) == ":" \in Range(name)

\* a split at the last ':' instead of the first
rsplit(name) ==
    LET i == CHOOSE i \in 1..Len(name) :
                 name[i] = ":" /\ \A j \in (i + 1)..Len(name) : name[j] # ":"
    IN  <<SubSeq(name, 1, i - 1), SubSeq(name, i + 1, Len(name))>>

\* name.split(':', maxsplit=1) for a name with a ':'
split(name) ==
    LET i == CHOOSE i \in 1..Len(name) :
                 name[i] = ":" /\ \A j \in 1..(i - 1) : name[j] # ":"
    IN  <<SubSeq(name, 1, i - 1), SubSeq(name, i + 1, Len(name))>>

\* SolverLookup.lookup(name): the class, or the error raised
lookup(name) ==
    IF ~name.some THEN [err |-> "", cls |-> base_solvers[1][2]]
    ELSE LET solvername == IF HasColon(name.v) THEN split(name.v)[1] ELSE name.v
             found == {i \in DOMAIN base_solvers : <<base_solvers[i][1]>> = solvername}
         IN  IF found # {}
             THEN [err |-> "",
                   cls |-> base_solvers[CHOOSE i \in found : \A j \in found : i <= j][2]]
             ELSE [err |-> "ValueError", cls |-> ""]

\* SolverLookup.get(name, model, **init_kwargs): the constructor calls made
\* and the error raised
get(name, model, init_kwargs) ==
    LET l == lookup(name) IN
    IF l.err # "" THEN [err |-> l.err, constructed |-> <<>>]
    ELSE LET subname == IF name.some /\ HasColon(name.v)
                        THEN Some(split(name.v)[2]) ELSE NoneSeq
         IN  [err |-> "",
              constructed |-> <<[cls |-> l.cls, model |-> model,
                                 subsolver |-> subname, init_kwargs |-> init_kwargs]>>]

RECURSIVE SeqsUpTo(_, _)
SeqsUpTo(S, n) ==
    IF n = 0 THEN {<<>>}
    ELSE LET R == SeqsUpTo(S, n - 1) IN R \cup {Append(r, x) : r \in R, x \in S}

\* get(name=...): None or a string
NameInputs == {NoneSeq} \cup {Some(n) : n \in SeqsUpTo(NamePieces, MaxNameLen)}

\* get(model=...)
ModelInputs == {"None", "model"}

\* get(**init_kwargs)
KwargInputs == {<<>>, <<<<"seed", 1>>>>}

\* the calls of utils.py leave the adapter alone
UtilsOnly == UNCHANGED <<solver, adapter, last_solve, last, objective_calls, nops>>

Get ==
    /\ \E name \in NameInputs, model \in ModelInputs, init_kwargs \in KwargInputs :
         util' = [op |-> "get", name |-> name, model |-> model,
                  init_kwargs |-> init_kwargs, r |-> get(name, model, init_kwargs)]
    /\ UtilsOnly

-----------------------------------------------------------------------------
(* cpmpy/solvers/utils.py: param_combinations *)

\* the keys of all_params in insertion order
KeySeq == <<"val", "opt", "tol">>

ValueLists == {<<>>, <<1>>, <<1, 2>>, <<2, 1, 1>>}

\* all_params: a dict of key -> list, as the sequence of its lists; the key
\* of the i-th list is KeySeq[i]
ParamInputs == SeqsUpTo(ValueLists, MaxKeys)

\* a yield that hands out cur_params itself
yielded_shared(cur_params) == [ref |-> TRUE, d |-> <<>>]

\* yield dict(cur_params): the consumer gets a copy
yielded(cur_params) == [ref |-> FALSE, d |-> cur_params]

\* the generator runs to its next yield or to its end. idx[k] is the
\* position of the for loop of the k-th nested call, whose cur_key is
\* KeySeq[k]; the innermost call is the one that runs
RECURSIVE advance(_, _, _)
advance(all_params, idx, cur_params) ==
    LET k == Len(idx) IN
    IF idx[k] < Len(all_params[k])
    THEN \* for cur_value in all_params[cur_key]: cur_params[cur_key] = cur_value
         LET idx1 == [idx EXCEPT ![k] = @ + 1]
             cur1 == (KeySeq[k] :> all_params[k][idx1[k]]) @@ cur_params
         IN  IF k = Len(all_params)
             THEN [idx |-> idx1, cur_params |-> cur1, yields |-> <<yielded(cur1)>>,
                   done |-> FALSE]
             ELSE advance(all_params, Append(idx1, 0), cur1)
    ELSE \* the loop is over: the call returns to the one that made it
         IF k = 1
         THEN [idx |-> idx, cur_params |-> cur_params, yields |-> <<>>, done |-> TRUE]
         ELSE advance(all_params, SubSeq(idx, 1, k - 1), cur_params)

\* param_combinations(all_params): the generator object, nothing has run
ParamCombinations ==
    /\ \E all_params \in ParamInputs :
         util' = [op |-> "param_combinations", all_params |-> all_params,
                  idx |-> <<>>, cur_params |-> <<>>, out |-> <<>>,
                  done |-> FALSE, err |-> ""]
    /\ UtilsOnly

\* next(generator); the consumer keeps what was yielded in out
NextCombination ==
    /\ util.op = "param_combinations"
    /\ ~util.done
    /\ IF util.all_params = <<>>
       THEN \* cur_key = remaining_keys[0] on an empty list
            util' = [util EXCEPT !.done = TRUE, !.err = "IndexError"]
       ELSE LET a == advance(util.all_params,
                             IF util.idx = <<>> THEN <<0>> ELSE util.idx,
                             util.cur_params)
            IN  util' = [util EXCEPT !.idx = a.idx, !.cur_params = a.cur_params,
                                     !.out = @ \o a.yields, !.done = a.done]
    /\ UtilsOnly

NextUtils ==
    \/ Get
    \/ ParamCombinations
    \/ NextCombination

SpecUtils == Init /\ [][NextUtils]_vars

-----------------------------------------------------------------------------
(* SolverLookup.get and param_combinations *)

\* name is base, or base followed by ':' and sub, with no ':' in base
NameParts(name, base, sub) ==
    /\ ":" \notin Range(base)
    /\ IF sub.some THEN name = base \o <<":">> \o sub.v ELSE name = base

\* the class registered under the name base, if any
Registered(base) == {e \in Range(base_solvers) : <<e[1]>> = base}

\* C19: get(name) constructs the class registered under the part of name
\* before the first ':' (CPM_ortools when name is None) with the model, the
\* part after the first ':' as subsolver (None without ':') and the keyword
\* arguments; when that part is not registered it raises ValueError and
\* constructs nothing
C19_GetConstructsRegisteredClass ==
    (util.op = "get") =>
        IF ~util.name.some
        THEN /\ util.r.err = ""
             /\ util.r.constructed =
                    <<[cls |-> "CPM_ortools", model |-> util.model,
                       subsolver |-> NoneSeq, init_kwargs |-> util.init_kwargs]>>
        ELSE \A i \in 0..Len(util.name.v) :
               \A sub \in {NoneSeq} \cup
                           {Some(SubSeq(util.name.v, j, Len(util.name.v))) :
                               j \in 1..(Len(util.name.v) + 1)} :
                 LET base == SubSeq(util.name.v, 1, i) IN
                 NameParts(util.name.v, base, sub) =>
                    IF Registered(base) = {}
                    THEN util.r.err = "ValueError" /\ util.r.constructed = <<>>
                    ELSE /\ util.r.err = ""
                         /\ Len(util.r.constructed) = 1
                         /\ \E e \in Registered(base) :
                               util.r.constructed[1] =
                                   [cls |-> e[2], model |-> util.model,
                                    subsolver |-> sub,
                                    init_kwargs |-> util.init_kwargs]

\* get("pumpkin::") with a model and a keyword argument constructed
\* CPM_pumpkin with subsolver ":"
C19_SubsolverWithColon ==
    /\ util.op = "get"
    /\ util.name = Some(<<"pumpkin", ":", ":">>)
    /\ util.model = "model" /\ util.init_kwargs # <<>>
    /\ util.r.err = ""
    /\ util.r.constructed[1].cls = "CPM_pumpkin"
    /\ util.r.constructed[1].subsolver = Some(<<":">>)

RECURSIVE Product(_)
Product(lists) == IF lists = <<>> THEN 1 ELSE Len(Head(lists)) * Product(Tail(lists))

\* what the consumer sees in the j-th dict it was given
Seen(j) == IF util.out[j].ref THEN util.cur_params ELSE util.out[j].d

\* the j-th element of the Cartesian product of the lists, the first key
\* varying slowest
Combination(lists, j) ==
    [key \in {KeySeq[k] : k \in 1..Len(lists)} |->
        LET k == CHOOSE k \in 1..Len(lists) : KeySeq[k] = key
            inner == Product(SubSeq(lists, k + 1, Len(lists)))
        IN  lists[k][(((j - 1) \div inner) % Len(lists[k])) + 1]]

\* C20: for a non-empty all_params the dicts yielded so far are, in order,
\* the first elements of the Cartesian product of the lists with the first key
\* varying slowest, each with every key and none changed by a later
\* iteration; the generator ends after product-of-lengths many, none when a
\* list is empty
C20_ParamCombinationsIsProduct ==
    (util.op = "param_combinations" /\ util.all_params # <<>>) =>
        /\ Len(util.out) <= Product(util.all_params)
        /\ \A j \in 1..Len(util.out) : Seen(j) = Combination(util.all_params, j)
        /\ (util.done => Len(util.out) = Product(util.all_params) /\ util.err = "")

\* the generator over two keys with lists of three and two values has ended
C20_SixCombinations ==
    /\ util.op = "param_combinations"
    /\ util.all_params = <<<<2, 1, 1>>, <<1, 2>>>>
    /\ util.done
    /\ Len(util.out) = 6

-----------------------------------------------------------------------------
(* CPM_pumpkin.solve: unsupported combinations of arguments *)

\* C21: on the Pumpkin adapter solve(assumptions=A) with an objective set, and
\* solve(assumptions=A, proof=p), raise before any native call is made and
\* leave the proof prefix, the variable cache, the status and the values of
\* the adapter as they were
C21_UnsupportedSolveLeavesState ==
    [][(/\ solver = "pumpkin"
        /\ nops' = nops + 1
        /\ last'.op = "solve"
        /\ last'.assum.some
        /\ (has_objective_pum(Self) \/ last'.proof.some))
          => /\ last'.out = "AssertionError"
             /\ last'.native = {}
             /\ UNCHANGED <<prefix, varmap, native_vars, exitstatus, value>>]_vars

-----------------------------------------------------------------------------
(* CPM_pumpkin.solve: exit status of an optimisation *)

\* C22: after a solve() of the Pumpkin adapter whose native optimise call
\* answered Satisfiable (a solution not proven optimal) the exit status is
\* FEASIBLE; it is OPTIMAL only when the native answer was Optimal
C22_SatisfiableIsFeasible ==
    (solver = "pumpkin" /\ last.op = "solve" /\ "optimise" \in last.native) =>
        /\ (last.kind = "Satisfiable" => exitstatus = "FEASIBLE")
        /\ (exitstatus = "OPTIMAL" => last.kind = "Optimal")

-----------------------------------------------------------------------------
(* CPM_pumpkin.solve: a plain satisfaction call *)

\* C23: on the Pumpkin adapter without an objective, solve() with no
\* assumptions and no proof path calls the native satisfy and returns true or
\* false without raising; with the constraints (x or y or z) and (x -> y) it
\* returns true, one of x, y, z is true, and y is true when x is
C23_PlainSolveSatisfies ==
    (/\ solver = "pumpkin"
     /\ last.op = "solve"
     /\ ~last.assum.some
     /\ ~last.proof.some
     /\ ~pum_objective.some)
        => /\ last.out \in {"true", "false"}
           /\ "satisfy" \in last.native
           /\ user_cons = {COr3, CImp} =>
                 /\ last.out = "true"
                 /\ \E v \in {"x", "y", "z"} : value[v] = BoolValue(1)
                 /\ value["x"] = BoolValue(1) => value["y"] = BoolValue(1)

-----------------------------------------------------------------------------
(* The objective value after a solve without a solution *)

\* C29: on both adapters, right after a solve() that returned false the
\* objective value is None: the value of an earlier solve is not visible
C29_FalseSolveResetsObjectiveValue ==
    (last.op = "solve" /\ last.out = "false") => objective_value_ = None

-----------------------------------------------------------------------------
(* CPM_ortools: the solver parameters of one call *)

\* C30: on the OR-Tools adapter the settings of a call hold for that call
\* only: the native Solve of a solve(time_limit=None) runs without a time
\* limit whatever an earlier call set, and the native Solve of a solve() runs
\* with enumerate_all_solutions off, also after a solveAll()
C30_CallSettingsAreScoped ==
    (solver = "ortools" /\ last.op = "solve" /\ last.out \in {"true", "false"}) =>
        /\ (~last.tl.some => ~params.max_time_in_seconds.some)
        /\ ~params.enumerate_all_solutions

-----------------------------------------------------------------------------
(* Posting one primitive constraint on a newly constructed adapter *)

\* pow(b, n) == r with the constant exponent n
CPow(b, n) ==
    [k |-> "pow", args |-> <<Var(b), Var("r")>>, w |-> <<>>, rhs |-> 0, n |-> n]

\* m mod y == r
CMod(y) == Con("mod==", <<Var("m"), Var(y), Var("r")>>)

\* max(a, b) == c and a + b == 4
CMax == Con("max==", <<Var("a"), Var("b"), Var("c")>>)
CSum == [k |-> "sum==", args |-> <<Var("a"), Var("b")>>, w |-> <<>>, rhs |-> 4]

\* bv -> sub for a consequent that is not a Boolean variable
CImpSub(bv, sub) ==
    [k |-> "->", args |-> <<Var(bv)>>, w |-> <<>>, rhs |-> 0, sub |-> sub]

\* _post_constraint(cpm_expr) of CPM_ortools
OrtPostInputs ==
    {CPow(b, n) : b \in Bases, n \in 0..MaxExponent}
    \cup {CMod(y) : y \in Divisors}
    \cup {CImpSub("x", sub) : sub \in {COr, CSum, CAllDiff, CMax}}
    \cup {COr, COr3, CImp, CX, CNotX, CAllDiff, CMax, CSum, CPowVar}

\* a + b, w1*a + w2*b or a - b compared with the constant rhs
LinCmp(n, c, w, rhs) ==
    [k |-> n \o c, args |-> <<Var("a"), Var("b")>>, w |-> w, rhs |-> rhs]

WeightInputs == {<<2, 0>>, <<-1, 1>>, <<1, 2>>}
RhsInputs == -1..4

\* the transformed constraints __add__ of CPM_pumpkin is given
PumPostInputs ==
    {LinCmp(n, c, <<>>, rhs) : n \in {"sum", "sub"}, c \in Comparators, rhs \in RhsInputs}
    \cup {LinCmp("wsum", c, w, rhs) : c \in Comparators, w \in WeightInputs, rhs \in RhsInputs}

OrtPostConstraint ==
    /\ solver = "ortools"
    /\ nops = 0
    /\ \E con \in OrtPostInputs :
         LET r == ort_post_constraint(Self, con, FALSE) IN
         /\ Becomes(r.st)
         /\ last' = [NoCall EXCEPT !.op = "_post_constraint", !.exprs = <<con>>,
                        !.out = IF r.err = "" THEN "ok" ELSE r.err]
    /\ nops' = nops + 1
    /\ UNCHANGED <<last_solve, objective_calls>>

PumPostConstraint ==
    /\ solver = "pumpkin"
    /\ nops = 0
    /\ \E con \in PumPostInputs :
         LET r == pum_post(Self, con) IN
         /\ Becomes(r.st)
         /\ last' = [NoCall EXCEPT !.op = "_post_constraint", !.exprs = <<con>>,
                        !.out = IF r.err = "" THEN "ok" ELSE r.err]
    /\ nops' = nops + 1
    /\ UNCHANGED <<last_solve, objective_calls>>

NextPost ==
    \/ OrtPostConstraint
    \/ PumPostConstraint

SpecPost == Init /\ [][NextPost]_vars

\* the constraint a _post_constraint call was given
PostedExpr == last.exprs[1]

\* C24: one _post_constraint call of the OR-Tools adapter that succeeds makes
\* exactly one native constraint: on a new adapter the native model holds one
\* constraint afterwards, whatever the kind of the expression
C24_OneNativeConstraintPerPost ==
    (solver = "ortools" /\ last.op = "_post_constraint" /\ last.out = "ok") =>
        Cardinality(native_cons) = 1

\* the kinds the native engine can enforce conditionally: and, or, linear
ReifiableKinds == {"and", "or", "sum==", "wsum==var"}

\* C25: _post_constraint of bv -> e, with e not a Boolean variable, raises
\* when e is of a kind the engine cannot reify and posts nothing of e; only
\* constraints of reifiable kinds carry an enforcement literal
C25_OnlyReifiableEnforced ==
    (solver = "ortools" /\ last.op = "_post_constraint" /\ "sub" \in DOMAIN PostedExpr) =>
        IF PostedExpr.sub.k \in ReifiableKinds
        THEN last.out = "ok" /\ \A c \in native_cons : "enforce" \in DOMAIN c
        ELSE last.out # "ok" /\ native_cons = {}

\* the weights of the terms of a sum, a wsum and a sub
TermWeights(con) ==
    CASE lhs_name(con.k) = "sum" -> [i \in 1..Len(con.args) |-> 1]
      [] lhs_name(con.k) = "wsum" -> con.w
      [] OTHER -> <<1, -1>>

\* the value of the linear expression with terms w[i] * args[i] under the
\* native assignment s; a term of weight 0 has no native variable
RECURSIVE LinearValue(_, _, _)
LinearValue(args, w, s) ==
    IF args = <<>> THEN 0
    ELSE (IF w[1] = 0 THEN 0 ELSE w[1] * s[varmap[args[1].v] + 1])
         + LinearValue(Tail(args), Tail(w), s)

Compares(cmp, l, c) ==
    CASE cmp = "==" -> l = c
      [] cmp = "!=" -> l # c
      [] cmp = "<=" -> l <= c
      [] cmp = "<" -> l < c
      [] cmp = ">=" -> l >= c
      [] OTHER -> l > c

\* the native variables of the terms with a weight other than 0
TermVars(con) ==
    {varmap[con.args[i].v] : i \in {j \in 1..Len(con.args) : TermWeights(con)[j] # 0}}

\* C26: a comparison of a sum, wsum or sub with a constant is posted on the
\* Pumpkin adapter as one native linear constraint over the terms with a
\* weight other than 0, of the kind and right-hand side that the comparison
\* calls for, and with the solutions of the comparison
C26_LinearComparisonsPosted ==
    (solver = "pumpkin" /\ last.op = "_post_constraint"
     /\ PostedExpr.k \in LinearComparisons) =>
        /\ last.out = "ok"
        /\ Cardinality(native_cons) = 1
        /\ \A c \in native_cons :
            /\ c.k = CASE cmp_name(PostedExpr.k) = "==" -> "Equals"
                       [] cmp_name(PostedExpr.k) = "!=" -> "NotEquals"
                       [] OTHER -> "LessThanOrEquals"
            /\ {c.lits[i] : i \in 1..Len(c.lits)} = TermVars(PostedExpr)
            /\ c.rhs = CASE cmp_name(PostedExpr.k) = "<" -> PostedExpr.rhs - 1
                         [] cmp_name(PostedExpr.k) = ">=" -> -PostedExpr.rhs
                         [] cmp_name(PostedExpr.k) = ">" -> -PostedExpr.rhs - 1
                         [] OTHER -> PostedExpr.rhs
            /\ \A s \in Assignments(native_vars) :
                    NativeHolds(c, s) <=>
                        Compares(cmp_name(PostedExpr.k),
                                 LinearValue(PostedExpr.args, TermWeights(PostedExpr), s),
                                 PostedExpr.rhs)

\* b to the power n
RECURSIVE Pow(_, _)
Pow(b, n) == IF n = 0 THEN 1 ELSE b * Pow(b, n - 1)

\* a power constraint with a constant exponent was posted
PowPosted ==
    /\ solver = "ortools" /\ last.op = "_post_constraint"
    /\ PostedExpr.k = "pow" /\ "n" \in DOMAIN PostedExpr

\* the pairs <<b, r>> that the native model allows: a value of the domain
\* of b with a solution that gives b this value, or any solution when the
\* model has no variable for b, and the value of r in the solution
PowSolutions ==
    {<<p[1], p[2][varmap[PostedExpr.args[2].v] + 1]>> :
        p \in {q \in (lb(PostedExpr.args[1].v)..ub(PostedExpr.args[1].v))
                       \X NativeSols(native_vars, native_cons, {}, {}) :
                  PostedExpr.args[1].v \in DOMAIN varmap =>
                      q[2][varmap[PostedExpr.args[1].v] + 1] = q[1]}}

ModPosted ==
    /\ solver = "ortools" /\ last.op = "_post_constraint"
    /\ PostedExpr.k = "mod==" /\ last.out = "ok"

\* the triples <<x, y, r>> of the solutions of the native model
ModSolutions ==
    {<<s[varmap[PostedExpr.args[1].v] + 1], s[varmap[PostedExpr.args[2].v] + 1],
       s[varmap[PostedExpr.args[3].v] + 1]>> :
        s \in NativeSols(native_vars, native_cons, {}, {})}

\* the triples <<x, y, r>> of the domains with r the remainder of x by y
ModTriples ==
    {t \in (lb(PostedExpr.args[1].v)..ub(PostedExpr.args[1].v))
           \X (lb(PostedExpr.args[2].v)..ub(PostedExpr.args[2].v))
           \X (lb(PostedExpr.args[3].v)..ub(PostedExpr.args[3].v)) :
        t[2] # 0 /\ t[3] = TruncMod(t[1], t[2])}

\* C28: after x mod y == r is posted on the OR-Tools adapter, the divisor of
\* the native modulo constraint is a variable whose lower bound is strictly
\* positive; when the lower bound of y is <= 0 that divisor is another
\* variable than y, equal to -y in every solution; and the native model
\* allows the triples (x, y, r) with r the remainder of x by y
C28_ModDivisorPositive ==
    ModPosted =>
        /\ \E c \in native_cons : c.k = "ModuloEquality"
        /\ \A c \in native_cons : c.k = "ModuloEquality" =>
            /\ native_vars[c.lits[3] + 1].lb > 0
            /\ lb(PostedExpr.args[2].v) <= 0 =>
                /\ c.lits[3] # varmap[PostedExpr.args[2].v]
                /\ \A s \in NativeSols(native_vars, native_cons, {}, {}) :
                        s[c.lits[3] + 1] = -s[varmap[PostedExpr.args[2].v] + 1]
        /\ ModSolutions = ModTriples
====
